---- MODULE Spec2Model ----
(***************************************************************************)
(* Model of the invoice generation pipeline of app/pdf_generator.py:       *)
(* the totals computation (_calculate_totals), the visual renderer         *)
(* (_build_reportlab_pdf), the trade document serializer                   *)
(* (_generate_zugferd_xml), the PDF/A-3 assembler (_make_pdfa_compliant)   *)
(* and the pipeline that runs them (generate_invoice_pdf).                 *)
(*                                                                         *)
(* Python's decimal.Decimal is modelled as the sign/coefficient/exponent   *)
(* triple it is: [s, c, exp] stands for (-1)^s * c * 10^exp.  All values   *)
(* of the model stay far below the 28 significant digits of the default    *)
(* decimal context, so +, * and / are exact as they are in the code for    *)
(* such values.  Text is a sequence of one-character strings.              *)
(*                                                                         *)
(* A value that the code binds to a local variable and reads several times *)
(* is passed on as the parameter of the operator that models the           *)
(* statements after the binding.                                           *)
(***************************************************************************)
EXTENDS Integers, Sequences, FiniteSets, TLC

VARIABLES form, items, pc, totals, pdf, xml, doc, err, env, main_font, stdout, registry, other,
          app, session

vars == <<form, items, pc, totals, pdf, xml, doc, err, env, main_font, stdout, registry, other,
          app, session>>

\* Largest number of line items of one invoice in the model.
MaxItems == 3

(***************************************************************************)
(* Text                                                                    *)
(***************************************************************************)
DigitChars == <<"0", "1", "2", "3", "4", "5", "6", "7", "8", "9">>

IsDigit(ch) == \E i \in 1..10 : DigitChars[i] = ch

DigitVal(ch) == (CHOOSE i \in 1..10 : DigitChars[i] = ch) - 1

DigitChar(n) == DigitChars[n + 1]

RECURSIVE Pow10(_)
Pow10(n) == IF n <= 0 THEN 1 ELSE 10 * Pow10(n - 1)

\* The decimal digits of a natural number, most significant first ("0" for 0).
RECURSIVE NatDigits(_)
NatDigits(n) ==
    IF n < 10 THEN <<DigitChar(n)>>
    ELSE Append(NatDigits(n \div 10), DigitChar(n % 10))

\* The value of a sequence of digit characters.
RECURSIVE DigitsVal(_)
DigitsVal(cs) ==
    IF cs = <<>> THEN 0
    ELSE 10 * DigitsVal(SubSeq(cs, 1, Len(cs) - 1)) + DigitVal(cs[Len(cs)])

AllDigits(cs) == cs # <<>> /\ \A i \in 1..Len(cs) : IsDigit(cs[i])

\* cs with n copies of ch put in front.
RECURSIVE PadLeft(_, _, _)
PadLeft(cs, ch, n) == IF n <= 0 THEN cs ELSE PadLeft(<<ch>> \o cs, ch, n - 1)

\* cs with zeros put in front up to the given width.
ZeroPadded(cs, width) == PadLeft(cs, "0", width - Len(cs))

\* Python's str.replace for single characters.
ReplaceChar(cs, old, new) ==
    [i \in 1..Len(cs) |-> IF cs[i] = old THEN new ELSE cs[i]]

\* The characters of cs other than ch, in order.
RECURSIVE RemoveChar(_, _)
RemoveChar(cs, ch) ==
    IF cs = <<>> THEN <<>>
    ELSE IF cs[1] = ch THEN RemoveChar(Tail(cs), ch)
    ELSE <<cs[1]>> \o RemoveChar(Tail(cs), ch)

CountChar(cs, ch) == Cardinality({i \in 1..Len(cs) : cs[i] = ch})

\* str.strip(): white space at both ends removed
IsSpace(ch) == ch \in {" ", "\n", "\t"}

RECURSIVE StripLeft(_)
StripLeft(cs) == IF cs # <<>> /\ IsSpace(cs[1]) THEN StripLeft(Tail(cs)) ELSE cs

RECURSIVE StripRight(_)
StripRight(cs) ==
    IF cs # <<>> /\ IsSpace(cs[Len(cs)]) THEN StripRight(SubSeq(cs, 1, Len(cs) - 1)) ELSE cs

Strip(cs) == StripRight(StripLeft(cs))

\* The first position of ch in cs.
IndexOf(cs, ch) == CHOOSE i \in 1..Len(cs) : cs[i] = ch /\ \A j \in 1..(i - 1) : cs[j] # ch

(***************************************************************************)
(* decimal.Decimal                                                         *)
(***************************************************************************)
Dec(s, c, e) == [s |-> s, c |-> c, exp |-> e]

\* Decimal("0.0")
DecZeroPointZero == Dec(0, 0, -1)

\* The exponents of TWO_PLACES = Decimal("0.01") and FOUR_PLACES = Decimal("0.0001")
TWO_PLACES == 0 - 2

FOUR_PLACES == 0 - 4

\* The signed coefficient of d written at exponent e (e <= d.exp).
Scaled(d, e) == (IF d.s = 1 THEN -1 ELSE 1) * d.c * Pow10(d.exp - e)

MinExp(a, b) == IF a.exp < b.exp THEN a.exp ELSE b.exp

\* The signed coefficient v at exponent e as a Decimal; a zero is negative
\* only when negzero says so.
DecOfSigned(v, e, negzero) ==
    IF v = 0 THEN Dec(IF negzero THEN 1 ELSE 0, 0, e)
    ELSE IF v < 0 THEN Dec(1, 0 - v, e) ELSE Dec(0, v, e)

EqAt(a, b, e) == Scaled(a, e) = Scaled(b, e)

LessAt(a, b, e) == Scaled(a, e) < Scaled(b, e)

AddAt(a, b, e) == DecOfSigned(Scaled(a, e) + Scaled(b, e), e, a.s = 1 /\ b.s = 1)

\* Decimal.__eq__ and Decimal.__hash__ compare by numeric value.
DecEq(a, b) == EqAt(a, b, MinExp(a, b))

\* Decimal.__lt__
DecLess(a, b) == LessAt(a, b, MinExp(a, b))

\* d > 0
DecGtZero(d) == d.s = 0 /\ d.c > 0

\* Decimal.__add__: exact, the exponent is the smaller of the two; a zero
\* sum is negative only when both operands are.
DecAdd(a, b) == AddAt(a, b, MinExp(a, b))

\* Decimal.__mul__: exact, exponents add, signs xor.
DecMul(a, b) == Dec((a.s + b.s) % 2, a.c * b.c, a.exp + b.exp)

\* Strips trailing zeros of the coefficient while the exponent is below ideal.
RECURSIVE RaiseExp(_, _)
RaiseExp(d, ideal) ==
    IF d.exp < ideal /\ d.c # 0 /\ d.c % 10 = 0
    THEN RaiseExp(Dec(d.s, d.c \div 10, d.exp + 1), ideal)
    ELSE d

\* d / Decimal("100.0"): the quotient is exact; its exponent is as close to
\* the ideal exponent d.exp - (-1) as the coefficient allows.
DecDivHundred(d) ==
    IF d.c = 0 THEN Dec(d.s, 0, d.exp + 1)
    ELSE RaiseExp(Dec(d.s, d.c, d.exp - 2), d.exp + 1)

\* c / p rounded to an integer, ties away from zero (ROUND_HALF_UP).
RoundHalfUp(c, p) == (c \div p) + (IF 2 * (c % p) >= p THEN 1 ELSE 0)

\* c / p rounded to an integer, ties to the even neighbour (ROUND_HALF_EVEN).
RoundHalfEven(c, p) ==
    IF 2 * (c % p) > p \/ (2 * (c % p) = p /\ (c \div p) % 2 = 1)
    THEN (c \div p) + 1
    ELSE c \div p

\* d.quantize(Decimal at exponent e, rounding=ROUND_HALF_UP)
QuantizeHalfUp(d, e) ==
    IF d.exp >= e THEN Dec(d.s, d.c * Pow10(d.exp - e), e)
    ELSE Dec(d.s, RoundHalfUp(d.c, Pow10(e - d.exp)), e)

\* d.quantize(Decimal at exponent e): the context's rounding, ROUND_HALF_EVEN
Quantize(d, e) ==
    IF d.exp >= e THEN Dec(d.s, d.c * Pow10(d.exp - e), e)
    ELSE Dec(d.s, RoundHalfEven(d.c, Pow10(e - d.exp)), e)

\* The digits of a decimal text after its sign: digs is body without the
\* point, points the number of points in body.
ParseDigits(sign, body, digs, points) ==
    IF AllDigits(digs) /\ points <= 1
    THEN [ok |-> TRUE,
          d  |-> Dec(sign, DigitsVal(digs),
                     IF points = 1 THEN IndexOf(body, ".") - Len(body) ELSE 0)]
    ELSE [ok |-> FALSE, d |-> Dec(0, 0, 0)]

ParseBody(sign, body) == ParseDigits(sign, body, RemoveChar(body, "."), CountChar(body, "."))

\* Decimal(text) for text over digits, sign, point and other characters:
\* [sign] digits [. [digits]] or [sign] . digits; anything else raises
\* decimal.InvalidOperation (ok = FALSE).
ParseDecimal(cs) ==
    IF cs # <<>> /\ cs[1] \in {"-", "+"}
    THEN ParseBody(IF cs[1] = "-" THEN 1 ELSE 0, Tail(cs))
    ELSE ParseBody(0, cs)

\* The text of a Decimal with the given sign text, coefficient digits and
\* exponent, left being the number of digits before the point.
DecStrAt(sign, digs, exp, left) ==
    IF exp <= 0 /\ left > 0 - 6
    THEN IF exp = 0 THEN sign \o digs
         ELSE IF left <= 0
              THEN sign \o <<"0", ".">> \o PadLeft(digs, "0", 0 - left)
              ELSE sign \o SubSeq(digs, 1, left) \o <<".">>
                        \o SubSeq(digs, left + 1, Len(digs))
    ELSE sign \o <<digs[1]>>
              \o (IF Len(digs) > 1 THEN <<".">> \o Tail(digs) ELSE <<>>)
              \o <<"E">> \o (IF left - 1 < 0 THEN <<"-">> ELSE <<"+">>)
              \o NatDigits(IF left - 1 < 0 THEN 1 - left ELSE left - 1)

DecStrDigits(sign, digs, exp) == DecStrAt(sign, digs, exp, exp + Len(digs))

\* Decimal.__str__: plain notation when exp <= 0 and the value is not tiny,
\* scientific notation otherwise.
DecStr(d) == DecStrDigits(IF d.s = 1 THEN <<"-">> ELSE <<>>, NatDigits(d.c), d.exp)

\* Groups the digits of an integer part in threes from the right with sep.
RECURSIVE GroupThousands(_, _)
GroupThousands(digs, sep) ==
    IF Len(digs) <= 3 THEN digs
    ELSE GroupThousands(SubSeq(digs, 1, Len(digs) - 3), sep)
             \o <<sep>> \o SubSeq(digs, Len(digs) - 2, Len(digs))

\* sign, grouped integer part, ".", two decimals, from at least three digits
FormatDigits(s, digs) ==
    (IF s = 1 THEN <<"-">> ELSE <<>>)
        \o GroupThousands(SubSeq(digs, 1, Len(digs) - 2), ",")
        \o <<".">> \o SubSeq(digs, Len(digs) - 1, Len(digs))

FormatQuantized(q) == FormatDigits(q.s, ZeroPadded(NatDigits(q.c), 3))

\* f"{value:,.2f}": rounds to two places with the context's rounding and
\* writes the integer part with "," between groups of three digits.
FormatCommaTwoPlaces(d) == FormatQuantized(Quantize(d, TWO_PLACES))

\* format_currency: the English grouping turned into the German one.
format_currency(value) ==
    ReplaceChar(ReplaceChar(ReplaceChar(FormatCommaTwoPlaces(value), ",", "X"), ".", ","), "X", ".")

(***************************************************************************)
(* Values of the form and item dictionaries                                *)
(***************************************************************************)
\* A key that the dictionary does not have, a key bound to None, a key
\* bound to a string.
Absent == [tag |-> "absent", chars |-> <<>>]

None == [tag |-> "None", chars |-> <<>>]

Str(cs) == [tag |-> "str", chars |-> cs]

\* dict.get(key, default)
DictGet(v, default) == IF v.tag = "absent" THEN default ELSE v

\* dict.get(key): None when the key is missing
DictGetNone(v) == IF v.tag = "absent" THEN None ELSE v

\* Python truth of None and of strings
Truthy(v) == v.tag = "str" /\ v.chars # <<>>

\* v or alt
OrElse(v, alt) == IF Truthy(v) THEN v ELSE alt

\* str(v)
PyStr(v) == IF v.tag = "None" THEN <<"N", "o", "n", "e">> ELSE v.chars

\* FieldDecimal without the fallbacks: Decimal(str(item.get(key)))
FieldDecimalNoDefault(v) == ParseDecimal(PyStr(DictGetNone(v)))

\* Decimal(str(item.get(key, "0") or "0"))
FieldDecimal(v) == ParseDecimal(PyStr(OrElse(DictGet(v, Str(<<"0">>)), Str(<<"0">>))))

\* form_data.get('is_small_business') == 'true'
IsSmallBusiness(f) == DictGetNone(f.is_small_business) = Str(<<"t", "r", "u", "e">>)

\* EffectiveRate without the small-business branch: the item's own rate
EffectiveRateOfItem(item, is_small_business) == FieldDecimal(item.vat_rate)

\* Decimal("0.0") if is_small_business else Decimal(str(item.get("vat_rate", "0") or "0"))
EffectiveRate(item, is_small_business) ==
    IF is_small_business THEN [ok |-> TRUE, d |-> DecZeroPointZero]
    ELSE FieldDecimal(item.vat_rate)

(***************************************************************************)
(* _calculate_totals                                                       *)
(***************************************************************************)
\* The dict vat_summary is kept as the sequence of its entries in insertion
\* order; its keys are compared as Decimal compares and hashes, by value.
\* HasBucket with keys compared as written: 19 and 19.0 are different keys
HasBucketAsWritten(summary, rate) == \E k \in 1..Len(summary) : summary[k].rate = rate

HasBucket(summary, rate) == \E k \in 1..Len(summary) : DecEq(summary[k].rate, rate)

BucketIndex(summary, rate) == CHOOSE k \in 1..Len(summary) : DecEq(summary[k].rate, rate)

\* EnsureBucket without the membership test: the entry is set to zero each time
EnsureBucketResetting(summary, vat_rate) ==
    IF HasBucket(summary, vat_rate)
    THEN [k \in 1..Len(summary) |->
             IF DecEq(summary[k].rate, vat_rate)
             THEN [rate |-> summary[k].rate, basis |-> DecZeroPointZero, vat |-> DecZeroPointZero]
             ELSE summary[k]]
    ELSE Append(summary, [rate  |-> vat_rate,
                          basis |-> DecZeroPointZero,
                          vat   |-> DecZeroPointZero])

\* if vat_rate not in vat_summary: vat_summary[vat_rate] = {'basis': 0.0, 'vat': 0.0}
EnsureBucket(summary, vat_rate) ==
    IF HasBucket(summary, vat_rate) THEN summary
    ELSE Append(summary, [rate  |-> vat_rate,
                          basis |-> DecZeroPointZero,
                          vat   |-> DecZeroPointZero])

\* d.quantize(Decimal at exponent e, rounding=ROUND_UP): away from zero
QuantizeUp(d, e) ==
    IF d.exp >= e THEN Dec(d.s, d.c * Pow10(d.exp - e), e)
    ELSE Dec(d.s, (d.c \div Pow10(e - d.exp)) + (IF d.c % Pow10(e - d.exp) # 0 THEN 1 ELSE 0), e)

\* d.quantize(Decimal at exponent e, rounding=ROUND_DOWN): towards zero
QuantizeDown(d, e) ==
    IF d.exp >= e THEN Dec(d.s, d.c * Pow10(d.exp - e), e)
    ELSE Dec(d.s, d.c \div Pow10(e - d.exp), e)

\* LineVat with rounding=ROUND_UP
LineVatRoundedUp(line_netto, vat_rate) ==
    QuantizeUp(DecMul(line_netto, DecDivHundred(vat_rate)), TWO_PLACES)

\* LineVat with rounding=ROUND_DOWN
LineVatRoundedDown(line_netto, vat_rate) ==
    QuantizeDown(DecMul(line_netto, DecDivHundred(vat_rate)), TWO_PLACES)

\* LineVat without quantize
LineVatUnrounded(line_netto, vat_rate) == DecMul(line_netto, DecDivHundred(vat_rate))

\* (line_netto * (vat_rate / Decimal("100.0"))).quantize(TWO_PLACES, rounding=ROUND_HALF_UP)
LineVat(line_netto, vat_rate) ==
    QuantizeHalfUp(DecMul(line_netto, DecDivHundred(vat_rate)), TWO_PLACES)

\* AddToBucket with the basis assigned instead of added to
AddToBucketAssigning(summary, k, line_netto, vat_rate) ==
    [summary EXCEPT ![k].basis = line_netto,
                    ![k].vat   = DecAdd(@, LineVat(line_netto, vat_rate))]

\* vat_summary[vat_rate]['basis'] += line_netto; vat_summary[vat_rate]['vat'] += ...
AddToBucket(summary, k, line_netto, vat_rate) ==
    [summary EXCEPT ![k].basis = DecAdd(@, line_netto),
                    ![k].vat   = DecAdd(@, LineVat(line_netto, vat_rate))]

AddToSummary(summary, line_netto, vat_rate) ==
    AddToBucket(summary, BucketIndex(summary, vat_rate), line_netto, vat_rate)

\* The body of the loop once the three fields of the item are decimals.
AddLine(acc, line_netto, vat_rate) ==
    [ok          |-> TRUE,
     total_netto |-> DecAdd(acc.total_netto, line_netto),
     vat_summary |-> AddToSummary(EnsureBucket(acc.vat_summary, vat_rate), line_netto, vat_rate)]

\* One pass of the loop; a field that is no decimal raises and ends the
\* function (ok = FALSE).
TotalsStepOf(acc, quantity, unit_price, vat_rate) ==
    IF ~acc.ok \/ ~quantity.ok \/ ~unit_price.ok \/ ~vat_rate.ok
    THEN [acc EXCEPT !.ok = FALSE]
    ELSE AddLine(acc, DecMul(quantity.d, unit_price.d), vat_rate.d)

TotalsStep(acc, item, is_small_business) ==
    TotalsStepOf(acc, FieldDecimal(item.quantity), FieldDecimal(item.unit_price),
                 EffectiveRate(item, is_small_business))

RECURSIVE TotalsLoop(_, _, _)
TotalsLoop(acc, its, is_small_business) ==
    IF its = <<>> THEN acc
    ELSE TotalsLoop(TotalsStep(acc, Head(its), is_small_business), Tail(its), is_small_business)

\* sum(summary['vat'] for summary in vat_summary.values()): the built-in
\* starts from the int 0, which is what it returns for no bucket at all.
RECURSIVE SumVatFrom(_, _)
SumVatFrom(start, summary) ==
    IF summary = <<>> THEN start
    ELSE SumVatFrom(DecAdd(start, Head(summary).vat), Tail(summary))

SumVat(summary) ==
    [ty |-> IF summary = <<>> THEN "int" ELSE "Decimal",
     d  |-> SumVatFrom(Dec(0, 0, 0), summary)]

\* total_brutto = total_netto + total_vat and the returned tuple
TotalsWithVat(acc, total_vat) ==
    [ok           |-> acc.ok,
     total_netto  |-> acc.total_netto,
     total_vat    |-> total_vat,
     total_brutto |-> DecAdd(acc.total_netto, total_vat.d),
     vat_summary  |-> acc.vat_summary]

TotalsOf(acc) == TotalsWithVat(acc, SumVat(acc.vat_summary))

_calculate_totals(its, is_small_business) ==
    TotalsOf(TotalsLoop([ok |-> TRUE, total_netto |-> DecZeroPointZero, vat_summary |-> <<>>],
                        its, is_small_business))

(***************************************************************************)
(* _get_tax_category_code                                                  *)
(***************************************************************************)
\* rate = Decimal(vat_rate_str); "S" if rate > 0, else "O"
_get_tax_category_code(vat_rate_str) ==
    IF DecGtZero(ParseDecimal(vat_rate_str).d) THEN "S" ELSE "O"

(***************************************************************************)
(* _build_reportlab_pdf: the item table of the visual PDF                  *)
(***************************************************************************)
RECURSIVE InsertByRate(_, _)
InsertByRate(sorted, entry) ==
    IF sorted = <<>> THEN <<entry>>
    ELSE IF DecLess(entry.rate, Head(sorted).rate) THEN <<entry>> \o sorted
    ELSE <<Head(sorted)>> \o InsertByRate(Tail(sorted), entry)

\* sorted(vat_summary_details.items())
RECURSIVE SortedByRate(_)
SortedByRate(summary) ==
    IF summary = <<>> THEN <<>>
    ELSE InsertByRate(SortedByRate(SubSeq(summary, 1, Len(summary) - 1)), summary[Len(summary)])

\* The cells of a table row; kind names the statement that appends it.
Row(kind, label, preis, amount) ==
    [kind |-> kind, label |-> label, preis |-> preis, amount |-> amount]

\* gesamt = (menge * preis) * (Decimal("1") + vat_rate / Decimal("100.0"))
ItemRowOf(menge, preis, vat_rate) ==
    Row("item", DecStr(menge), format_currency(preis),
        format_currency(DecMul(DecMul(menge, preis),
                               DecAdd(Dec(0, 1, 0), DecDivHundred(vat_rate)))))

\* The table row of one item: quantity, unit price and the line total
\* including VAT at the item's effective rate.
ItemRow(item, is_small_business) ==
    ItemRowOf(FieldDecimal(item.quantity).d, FieldDecimal(item.unit_price).d,
              EffectiveRate(item, is_small_business).d)

\* A row for every bucket, whatever its VAT amount.
VatRowsEveryBucket(sorted) ==
    [k \in 1..Len(sorted) |->
        Row("vat", DecStr(sorted[k].rate) \o <<"%", " ", "M", "w", "S", "t", ":">>,
            <<>>, format_currency(sorted[k].vat))]

\* One row per bucket whose VAT amount is positive, in the order of the rates.
RECURSIVE VatRows(_)
VatRows(sorted) ==
    IF sorted = <<>> THEN <<>>
    ELSE (IF DecGtZero(Head(sorted).vat)
          THEN <<Row("vat", DecStr(Head(sorted).rate) \o <<"%", " ", "M", "w", "S", "t", ":">>,
                     <<>>, format_currency(Head(sorted).vat))>>
          ELSE <<>>) \o VatRows(Tail(sorted))

\* The rows of the table: header, items, "Netto:", the VAT rows unless the
\* sender is a small business, "Gesamt:".
TableData(its, is_small_business, t) ==
    <<Row("header", <<>>, <<>>, <<>>)>>
    \o [i \in 1..Len(its) |-> ItemRow(its[i], is_small_business)]
    \o <<Row("netto", <<"N", "e", "t", "t", "o", ":">>, <<>>, format_currency(t.total_netto))>>
    \o (IF ~is_small_business THEN VatRows(SortedByRate(t.vat_summary)) ELSE <<>>)
    \o <<Row("gesamt", <<"G", "e", "s", "a", "m", "t", ":">>, <<>>, format_currency(t.total_brutto))>>

\* The rendered document: the table, the row the table style spans for the
\* net total (-len(vat_summary_details)-2, counted from the end of the
\* table as Python counts, here as a position from 1), and whether the
\* footer carries the small-business sentence.
RenderedPdf(data, t, is_small_business) ==
    [made       |-> TRUE,
     data       |-> data,
     netto_span |-> Len(data) + 1 - Len(t.vat_summary) - 2,
     disclaimer |-> is_small_business]

\* The sentence put in front of the notes of a small business.
Paragraph19 == <<"Gemaess Paragraph 19 UStG wird keine Umsatzsteuer berechnet.", "\n">>

\* f"<b>label</b> {form_data.get(key)}" for each key of the form that is
\* there and not empty
DetailsLine(label, v) == IF Truthy(DictGetNone(v)) THEN <<<<label>> \o v.chars>> ELSE <<>>

\* The footer once notes is a string: the notes paragraph is there when
\* the stripped notes are not empty, with "<br/>" for every line feed.
FooterOf(f, notes) ==
    [notes   |-> IF Strip(notes) # <<>> THEN <<ReplaceChar(Strip(notes), "\n", "<br/>")>> ELSE <<>>,
     details |-> DetailsLine("IBAN:", f.sender_iban) \o DetailsLine("Steuernummer:", f.sender_tax_id)]

\* The header: the logo when it could be drawn, and the invoice details.
HeaderOf(f, logo) ==
    [logo            |-> logo = "ok",
     invoice_details |-> <<PyStr(DictGet(f.invoice_number, Str(<<>>))),
                           PyStr(DictGet(f.invoice_date, Str(<<>>)))>>]

\* What drawImage prints when it raises: nothing with no logo_path or a
\* logo that can be drawn.
LogoPrints(logo) == IF logo \in {"none", "ok"} THEN <<>> ELSE <<"Error drawing logo">>

\* A header whose logo is drawn outside any try: what drawImage raises
\* leaves the renderer.
DrawnLogoRaising(f, font_name, logo, notes) ==
    IF logo = "unloadable" THEN [ok |-> FALSE, err |-> "OSError"]
    ELSE [ok     |-> TRUE,
          err    |-> "none",
          prints |-> <<>>,
          page   |-> [font   |-> font_name,
                      footer |-> FooterOf(f, IF IsSmallBusiness(f)
                                             THEN Paragraph19 \o notes.chars ELSE notes.chars),
                      header |-> HeaderOf(f, logo)]]

\* What is drawn on a page: notes that are None raise TypeError when the
\* sentence of the small business is put in front of them, AttributeError
\* when they are stripped.
DrawnWithNotes(f, font_name, logo, notes) ==
    IF notes.tag = "None"
    THEN [ok |-> FALSE, err |-> IF IsSmallBusiness(f) THEN "TypeError" ELSE "AttributeError"]
    ELSE [ok     |-> TRUE,
          err    |-> "none",
          prints |-> LogoPrints(logo),
          page   |-> [font   |-> font_name,
                      footer |-> FooterOf(f, IF IsSmallBusiness(f)
                                             THEN Paragraph19 \o notes.chars ELSE notes.chars),
                      header |-> HeaderOf(f, logo)]]

_draw_header_and_footer(f, font_name, logo) ==
    DrawnWithNotes(f, font_name, logo, DictGet(f.notes, Str(<<>>)))

RenderWithTotals(its, is_small_business, t) ==
    IF ~t.ok THEN [ok |-> FALSE, err |-> "InvalidOperation"]
    ELSE [ok |-> TRUE, err |-> "none",
          totals |-> t,
          pdf |-> RenderedPdf(TableData(its, is_small_business, t), t, is_small_business)]

RenderAs(its, is_small_business) ==
    RenderWithTotals(its, is_small_business, _calculate_totals(its, is_small_business))

\* doc.build: the story is laid out on the pages and the header and footer
\* are drawn on each of them; the tables of the model fit one page.  The
\* font object is what the font registry holds for font_name when the page
\* is drawn.
BuildWithPage(r, drawn, font_name, font_object) ==
    IF ~r.ok THEN r
    ELSE IF ~drawn.ok THEN [ok |-> FALSE, err |-> drawn.err]
    ELSE [ok     |-> TRUE,
          err    |-> "none",
          totals |-> r.totals,
          prints |-> drawn.prints,
          pdf    |-> [font_name   |-> font_name,
                      font_object |-> font_object,
                      pages       |-> <<[story |-> r.pdf.data] @@ drawn.page>>] @@ r.pdf]

\* _build_reportlab_pdf from the definition of _draw_header_and_footer on
_build_reportlab_pdf(f, its, logo, font_name, font_object) ==
    BuildWithPage(RenderAs(its, IsSmallBusiness(f)),
                  _draw_header_and_footer(f, font_name, logo), font_name, font_object)

(***************************************************************************)
(* Dates: datetime.strptime(text, '%Y-%m-%d') and strftime('%Y%m%d')       *)
(***************************************************************************)
NoDate == [ok |-> FALSE, y |-> 0, m |-> 0, d |-> 0]

DaysInMonth(y, m) ==
    IF m \in {4, 6, 9, 11} THEN 30
    ELSE IF m # 2 THEN 31
    ELSE IF y % 4 = 0 /\ (y % 100 # 0 \/ y % 400 = 0) THEN 29 ELSE 28

\* A date of the calendar, or ValueError
DateOf(y, m, d) ==
    IF y >= 1 /\ m \in 1..12 /\ d \in 1..DaysInMonth(y, m)
    THEN [ok |-> TRUE, y |-> y, m |-> m, d |-> d]
    ELSE NoDate

\* %Y takes four digits, %m and %d one or two
DateOfParts(ys, ms, ds) ==
    IF /\ AllDigits(ys) /\ Len(ys) = 4
       /\ AllDigits(ms) /\ Len(ms) <= 2
       /\ AllDigits(ds) /\ Len(ds) <= 2
    THEN DateOf(DigitsVal(ys), DigitsVal(ms), DigitsVal(ds))
    ELSE NoDate

DateOfMonthDay(ys, rest, i2) ==
    DateOfParts(ys, SubSeq(rest, 1, i2 - 1), SubSeq(rest, i2 + 1, Len(rest)))

DateOfYearRest(ys, rest) == DateOfMonthDay(ys, rest, IndexOf(rest, "-"))

DateSplit(cs, i1) == DateOfYearRest(SubSeq(cs, 1, i1 - 1), SubSeq(cs, i1 + 1, Len(cs)))

\* strptime: [ok, y, m, d]; text that does not match the format or names
\* no day of the calendar raises ValueError (ok = FALSE).
ParseDate(cs) ==
    IF CountChar(cs, "-") # 2 THEN NoDate ELSE DateSplit(cs, IndexOf(cs, "-"))

\* strftime('%Y%m%d')
FormatDate102(dt) ==
    ZeroPadded(NatDigits(dt.y), 4) \o ZeroPadded(NatDigits(dt.m), 2) \o ZeroPadded(NatDigits(dt.d), 2)

(***************************************************************************)
(* _generate_zugferd_xml                                                   *)
(***************************************************************************)
\* The tax element of a line item or of the header: the exemption reason is
\* written when the category code is "O".
TaxElement(category_code, rate_text) ==
    [CategoryCode          |-> category_code,
     ExemptionReasonCode   |-> IF category_code = "O" THEN "VATEX-EU-DE" ELSE "",
     RateApplicablePercent |-> rate_text]

\* A line item whose line id counts from 0
LineItemFromZero(i, menge, preis, vat_rate) ==
    [LineID          |-> NatDigits(i - 1),
     BilledQuantity  |-> DecStr(Quantize(menge, FOUR_PLACES)),
     tax             |-> TaxElement(_get_tax_category_code(DecStr(vat_rate)),
                                    DecStr(Quantize(vat_rate, TWO_PLACES))),
     LineTotalAmount |-> DecStr(Quantize(QuantizeHalfUp(DecMul(menge, preis), TWO_PLACES),
                                         TWO_PLACES)),
     ChargeAmount    |-> DecStr(Quantize(preis, FOUR_PLACES))]

\* line_total = (menge * preis).quantize(TWO_PLACES, rounding=ROUND_HALF_UP)
LineItemOf(i, menge, preis, vat_rate) ==
    [LineID          |-> NatDigits(i),
     BilledQuantity  |-> DecStr(Quantize(menge, FOUR_PLACES)),
     tax             |-> TaxElement(_get_tax_category_code(DecStr(vat_rate)),
                                    DecStr(Quantize(vat_rate, TWO_PLACES))),
     LineTotalAmount |-> DecStr(Quantize(QuantizeHalfUp(DecMul(menge, preis), TWO_PLACES),
                                         TWO_PLACES)),
     ChargeAmount    |-> DecStr(Quantize(preis, FOUR_PLACES))]

\* The IncludedSupplyChainTradeLineItem element of the i-th item.
LineItem(i, item, is_small_business) ==
    LineItemOf(i, FieldDecimal(item.quantity).d, FieldDecimal(item.unit_price).d,
               EffectiveRate(item, is_small_business).d)

\* The header ApplicableTradeTax element of one bucket of vat_summary.
TradeTax(entry) ==
    [CalculatedAmount |-> DecStr(Quantize(entry.vat, TWO_PLACES)),
     BasisAmount      |-> DecStr(Quantize(entry.basis, TWO_PLACES)),
     tax              |-> TaxElement(_get_tax_category_code(DecStr(Quantize(entry.rate, TWO_PLACES))),
                                     DecStr(Quantize(entry.rate, TWO_PLACES)))]

\* HeaderSummation with every amount quantized with rounding=ROUND_HALF_UP
HeaderSummationHalfUp(t) ==
    [LineTotalAmount     |-> DecStr(QuantizeHalfUp(t.total_netto, TWO_PLACES)),
     TaxBasisTotalAmount |-> DecStr(QuantizeHalfUp(t.total_netto, TWO_PLACES)),
     TaxTotalAmount      |-> DecStr(QuantizeHalfUp(t.total_vat.d, TWO_PLACES)),
     GrandTotalAmount    |-> DecStr(QuantizeHalfUp(t.total_brutto, TWO_PLACES)),
     DuePayableAmount    |-> DecStr(QuantizeHalfUp(t.total_brutto, TWO_PLACES))]

\* HeaderSummation with the tax basis taken from the gross total
HeaderSummationBasisGross(t) ==
    [LineTotalAmount     |-> DecStr(Quantize(t.total_netto, TWO_PLACES)),
     TaxBasisTotalAmount |-> DecStr(Quantize(t.total_brutto, TWO_PLACES)),
     TaxTotalAmount      |-> DecStr(Quantize(t.total_vat.d, TWO_PLACES)),
     GrandTotalAmount    |-> DecStr(Quantize(t.total_brutto, TWO_PLACES)),
     DuePayableAmount    |-> DecStr(Quantize(t.total_brutto, TWO_PLACES))]

\* SpecifiedTradeSettlementHeaderMonetarySummation
HeaderSummation(t) ==
    [LineTotalAmount     |-> DecStr(Quantize(t.total_netto, TWO_PLACES)),
     TaxBasisTotalAmount |-> DecStr(Quantize(t.total_netto, TWO_PLACES)),
     TaxTotalAmount      |-> DecStr(Quantize(t.total_vat.d, TWO_PLACES)),
     GrandTotalAmount    |-> DecStr(Quantize(t.total_brutto, TWO_PLACES)),
     DuePayableAmount    |-> DecStr(Quantize(t.total_brutto, TWO_PLACES))]

\* The text of an element: None leaves the element empty
XmlText(v) == IF v.tag = "str" THEN v.chars ELSE <<>>

\* if form_data.get(key): an element with the value under the scheme
OptionalElement(scheme, v) ==
    IF Truthy(DictGetNone(v)) THEN <<[schemeID |-> scheme, text |-> v.chars]>> ELSE <<>>

\* The prefixes ET.register_namespace puts in the process-wide map
RegisteredPrefixes == {"rsm", "ram", "udt"}

\* The elements of the form with an empty ID when the form has no invoice
\* number.
FormElementsNoPlaceholder(f, uid) ==
    [ID                       |-> XmlText(DictGet(f.invoice_number, Str(<<>>))),
     SpecifiedTaxRegistration |-> OptionalElement("FC", f.sender_tax_id)
                                      \o OptionalElement("VA", f.sender_vat_id),
     BuyerReference           |-> OptionalElement("", f.leitweg_id),
     IBANID                   |-> OptionalElement("", f.sender_iban),
     prefixes                 |-> RegisteredPrefixes]

\* The elements filled from the form: the document ID, with the random
\* identifier uid when the form has no invoice number, the tax
\* registrations of the seller, the reference of the buyer and the
\* payment means.
FormElements(f, uid) ==
    [ID                       |-> XmlText(DictGet(f.invoice_number, Str(<<"INV-">> \o uid))),
     SpecifiedTaxRegistration |-> OptionalElement("FC", f.sender_tax_id)
                                      \o OptionalElement("VA", f.sender_vat_id),
     BuyerReference           |-> OptionalElement("", f.leitweg_id),
     IBANID                   |-> OptionalElement("", f.sender_iban),
     prefixes                 |-> RegisteredPrefixes]

\* The document once the date and the totals are there
XmlDocument(its, is_small_business, invoice_date_obj, t) ==
    [made          |-> TRUE,
     IssueDateTime |-> FormatDate102(invoice_date_obj),
     lines         |-> [i \in 1..Len(its) |-> LineItem(i, its[i], is_small_business)],
     taxes         |-> [k \in 1..Len(t.vat_summary) |-> TradeTax(t.vat_summary[k])],
     summation     |-> HeaderSummation(t)]

\* The statements after strptime: an item field that is no decimal raises
\* InvalidOperation, and total_vat.quantize raises AttributeError when
\* total_vat is the int 0 that sum() returns for an empty item list.
SerializeWithTotals(its, is_small_business, invoice_date_obj, t) ==
    IF ~t.ok THEN [ok |-> FALSE, err |-> "InvalidOperation"]
    ELSE IF t.total_vat.ty = "int" THEN [ok |-> FALSE, err |-> "AttributeError"]
    ELSE [ok |-> TRUE, err |-> "none",
          xml |-> XmlDocument(its, is_small_business, invoice_date_obj, t)]

\* The elements of the form are part of the document that is returned.
WithFormElements(r, f, uid) ==
    IF r.ok THEN [r EXCEPT !.xml = FormElements(f, uid) @@ r.xml] ELSE r

\* strptime raises TypeError on None and ValueError on text that is no date
SerializeDated(its, is_small_business, invoice_date_str, invoice_date_obj) ==
    IF invoice_date_str.tag = "None" THEN [ok |-> FALSE, err |-> "TypeError"]
    ELSE IF ~invoice_date_obj.ok THEN [ok |-> FALSE, err |-> "ValueError"]
    ELSE SerializeWithTotals(its, is_small_business, invoice_date_obj,
                             _calculate_totals(its, is_small_business))

SerializeAt(f, its, invoice_date_str) ==
    SerializeDated(its, IsSmallBusiness(f), invoice_date_str, ParseDate(invoice_date_str.chars))

\* The serializer, with today the text datetime.now() formats to and uid
\* the six characters taken from uuid4:
\* invoice_date_str = form_data.get('invoice_date', today)
_generate_zugferd_xml(f, its, today, uid) ==
    WithFormElements(SerializeAt(f, its, DictGet(f.invoice_date, Str(today))), f, uid)

(***************************************************************************)
(* _make_pdfa_compliant                                                    *)
(***************************************************************************)
\* A loop that puts every page in front of the pages added before
RECURSIVE AddPagesInFront(_, _, _)
AddPagesInFront(writer_pages, reader_pages, i) ==
    IF i > Len(reader_pages) THEN writer_pages
    ELSE AddPagesInFront(<<reader_pages[i]>> \o writer_pages, reader_pages, i + 1)

\* for page in reader.pages: writer.add_page(page), from page i on
RECURSIVE AddPages(_, _, _)
AddPages(writer_pages, reader_pages, i) ==
    IF i > Len(reader_pages) THEN writer_pages
    ELSE AddPages(Append(writer_pages, reader_pages[i]), reader_pages, i + 1)

\* The pages the reader finds in the buffer of the renderer: each with
\* what was drawn on its canvas and its part of the table.
ReaderPages(pdf_buffer) == pdf_buffer.pages

\* The XMP packet: the title carries the invoice number as str() gives it
XmpMetadata(f) ==
    [part |-> "3", conformance |-> "B",
     title |-> <<"Rechnung ">> \o PyStr(DictGet(f.invoice_number, Str(<<>>))),
     DocumentFileName |-> "factur-x.xml"]

\* The output intent is appended when the ICC profile file exists
OutputIntents(icc) ==
    IF icc THEN <<[S |-> "GTS_PDFA1", OutputConditionIdentifier |-> "sRGB IEC61966-2.1"]>>
    ELSE <<>>

\* The file specification of the attachment
Filespec(xml_data, today) ==
    [F              |-> "factur-x.xml",
     EF             |-> xml_data,
     ModDate        |-> today,
     AFRelationship |-> "Data"]

\* root.setdefault(key, ArrayObject()).append(ref) on the root of a writer
\* whose value under key is the array there
SetDefaultAppend(there, ref) == Append(there, ref)

\* An assembler that leaves the file specification out of the AF array
AssembledNoAF(pages, metadata, intents, filespec) ==
    [made          |-> TRUE,
     pages         |-> pages,
     Metadata      |-> metadata,
     OutputIntents |-> intents,
     EmbeddedFiles |-> <<[name |-> filespec.F, ref |-> filespec]>>,
     AF            |-> <<>>]

\* The root of the fresh writer has neither /Names nor /AF: the file
\* specification is put in the name tree of embedded files under its file
\* name and appended to the AF array.
AssembledWith(pages, metadata, intents, filespec) ==
    [made          |-> TRUE,
     pages         |-> pages,
     Metadata      |-> metadata,
     OutputIntents |-> intents,
     EmbeddedFiles |-> <<[name |-> filespec.F, ref |-> filespec]>>,
     AF            |-> SetDefaultAppend(<<>>, filespec)]

_make_pdfa_compliant(pdf_buffer, xml_data, f, icc, today) ==
    AssembledWith(AddPages(<<>>, ReaderPages(pdf_buffer), 1), XmpMetadata(f),
                  OutputIntents(icc), Filespec(xml_data, today))

(***************************************************************************)
(* Inputs                                                                  *)
(***************************************************************************)
Item(q, p, r) == [quantity |-> q, unit_price |-> p, vat_rate |-> r]

\* The items an invoice of the model is made of: an amount whose VAT falls
\* on half a cent, an amount above a thousand with the same rate written
\* another way, a line net with four decimals, an amount of an eighth with
\* a rate under half a hundredth, fields that are missing, None or empty, a
\* quantity that is no number and a rate that is no number.
ItemPool ==
    << Item(Str(<<"1">>), Str(<<"0", ".", "5", "0">>), Str(<<"1", "9">>)),
       Item(Str(<<"2">>), Str(<<"6", "0", "0", ".", "0", "0">>), Str(<<"1", "9", ".", "0">>)),
       Item(Str(<<"1", ".", "5">>), Str(<<"0", ".", "3", "3", "3">>), Str(<<"7">>)),
       Item(Str(<<"0", ".", "5">>), Str(<<"0", ".", "2", "5">>), Str(<<"0", ".", "0", "0", "1">>)),
       Item(Absent, None, Str(<<>>)),
       Item(Str(<<"a", "b", "c">>), Str(<<"1">>), Str(<<"1", "9">>)),
       Item(Str(<<"1">>), Str(<<"0", ".", "5", "0">>), Str(<<"a", "b", "c">>)) >>

\* The ways to pick n items of the pool, an item any number of times.
Picks(n) == {ix \in [1..n -> 1..Len(ItemPool)] : \A i \in 1..(n - 1) : ix[i] <= ix[i + 1]}

\* The item lists of the model: up to MaxItems items, different items in
\* the order of the pool, which is not the order of their rates.
ItemLists == UNION {{[i \in 1..n |-> ItemPool[ix[i]]] : ix \in Picks(n)} : n \in 0..MaxItems}

SmallBusinessValues == {Absent, Str(<<"t", "r", "u", "e">>), Str(<<"f", "a", "l", "s", "e">>)}

InvoiceDateValues == {Absent, Str(<<"2", "0", "2", "4", "-", "0", "3", "-", "0", "5">>), Str(<<>>)}

\* The text fields of a form that is filled in: number, notes of two
\* lines with blanks around them, IBAN, tax ids and Leitweg-ID.
FilledFields ==
    [invoice_number |-> Str(<<"R", "1">>),
     notes          |-> Str(<<" ", "a", "\n", "b", " ">>),
     sender_iban    |-> Str(<<"DE02">>),
     sender_tax_id  |-> Str(<<"12/345">>),
     sender_vat_id  |-> Str(<<"DE123">>),
     leitweg_id     |-> Str(<<"991-01">>)]

Forms == {f @@ FilledFields : f \in [is_small_business : SmallBusinessValues,
                                     invoice_date : InvoiceDateValues]}

\* What datetime.now() can format to.
Today == { <<"2", "0", "2", "6", "-", "1", "1", "-", "0", "4">>,
           <<"2", "0", "2", "6", "-", "1", "1", "-", "0", "5">> }

\* What uuid.uuid4().hex[:6].upper() can be.
Uuids == { <<"0A1B2C">>, <<"F9E8D7">> }

\* The files of the process: the font file and the ICC profile exist or
\* not, and logo_path is None ("none"), names a file that cannot be drawn
\* ("unloadable") or one that can ("ok").
LogoValues == {"none", "unloadable", "ok"}

Environments == [font : BOOLEAN, icc : BOOLEAN, logo : LogoValues]

AllThere == [font |-> TRUE, icc |-> TRUE, logo |-> "ok"]

\* A buffer that has not been produced.
Nothing == [made |-> FALSE]

\* The process-wide state: the object pdfmetrics holds under the name
\* 'DejaVuSans', named by the invocation that registered it (0: none),
\* and the prefixes ElementTree holds for the namespaces of the invoice.
NoRegistry == [font |-> 0, namespaces |-> {}]

\* The second invocation when there is none.
Idle == [pc |-> "idle"]

\* The web application when generate_invoice_pdf is called without it: no
\* database, no stored file, and no request in the middleware.
NoApp == [pc |-> "none"]

NoRequest == [pc |-> "none"]

(***************************************************************************)
(* generate_invoice_pdf                                                    *)
(***************************************************************************)
\* An invocation that has been called and has done nothing yet.
Called(f, its) ==
    [form |-> f, items |-> its, pc |-> "font", main_font |-> "unset", totals |-> Nothing,
     pdf |-> Nothing, xml |-> Nothing, doc |-> Nothing, err |-> "none"]

\* The invocation the variables describe.
Self ==
    [form |-> form, items |-> items, pc |-> pc, main_font |-> main_font, totals |-> totals,
     pdf |-> pdf, xml |-> xml, doc |-> doc, err |-> err]

\* The variables become the invocation inv.
Becomes(inv) ==
    /\ form' = inv.form
    /\ items' = inv.items
    /\ pc' = inv.pc
    /\ main_font' = inv.main_font
    /\ totals' = inv.totals
    /\ pdf' = inv.pdf
    /\ xml' = inv.xml
    /\ doc' = inv.doc
    /\ err' = inv.err

\* The variables are the invocation inv.
Is(inv) ==
    /\ form = inv.form
    /\ items = inv.items
    /\ pc = inv.pc
    /\ main_font = inv.main_font
    /\ totals = inv.totals
    /\ pdf = inv.pdf
    /\ xml = inv.xml
    /\ doc = inv.doc
    /\ err = inv.err

InitWith(f, its, e) ==
    /\ Is(Called(f, its))
    /\ env = e
    /\ stdout = <<>>
    /\ registry = NoRegistry
    /\ other = Idle
    /\ app = NoApp
    /\ session = NoRequest

Init == \E f \in Forms, its \in ItemLists : InitWith(f, its, AllThere)

\* A pipeline that wraps what a stage raises in an exception of its own
OutcomeWrapping(inv, r, next) ==
    IF r.ok THEN [inv EXCEPT !.pc = next] ELSE [inv EXCEPT !.pc = "failed", !.err = "RuntimeError"]

\* The step from a stage whose outcome is r: on to the next stage, or out
\* of the pipeline with the exception.
Outcome(inv, r, next) ==
    IF r.ok THEN [inv EXCEPT !.pc = next] ELSE [inv EXCEPT !.pc = "failed", !.err = r.err]

\* if os.path.exists(FONT_PATH): the font is registered under its name for
\* the whole process by invocation id, else a warning is printed.
FontRegistered(inv, id) ==
    /\ registry' = [registry EXCEPT !.font = IF env.font THEN id ELSE @]
    /\ stdout' = IF env.font THEN stdout ELSE Append(stdout, "Warning: DejaVuSans.ttf not found")
    /\ UNCHANGED env

FontChosen(inv) ==
    [inv EXCEPT !.pc = "render", !.main_font = IF env.font THEN "DejaVuSans" ELSE "Helvetica"]

\* The font object doc.build finds under the name of the main font: the
\* one registered last, or the built-in one (0).
FontObject(inv) == IF inv.main_font = "DejaVuSans" THEN registry.font ELSE 0

\* totals is what the renderer's call of _calculate_totals returned.
RenderDone(inv, r) ==
    IF r.ok THEN [Outcome(inv, r, "serialize") EXCEPT !.totals = [made |-> TRUE] @@ r.totals,
                                                      !.pdf = r.pdf]
    ELSE Outcome(inv, r, "serialize")

RenderPrints(r) ==
    /\ stdout' = IF r.ok THEN stdout \o r.prints ELSE stdout
    /\ UNCHANGED <<env, registry>>

Rendered(inv) ==
    _build_reportlab_pdf(inv.form, inv.items, env.logo, inv.main_font, FontObject(inv))

SerializeDone(inv, r) ==
    IF r.ok THEN [Outcome(inv, r, "assemble") EXCEPT !.xml = r.xml]
    ELSE Outcome(inv, r, "assemble")

\* ET.register_namespace is reached once the date is parsed and the
\* totals are computed; of the exceptions only the AttributeError of the
\* empty item list is raised after it.
NamespacesRegistered(r) ==
    /\ registry' = IF r.ok \/ r.err = "AttributeError" THEN [registry EXCEPT !.namespaces = @ \cup RegisteredPrefixes]
                   ELSE registry
    /\ UNCHANGED <<env, stdout>>

Serialized(inv, today, uid) == _generate_zugferd_xml(inv.form, inv.items, today, uid)

Assembled(inv, today) ==
    [inv EXCEPT !.pc = "done",
                !.doc = _make_pdfa_compliant(inv.pdf, inv.xml, inv.form, env.icc, today)]

\* Step 1, lines 68-73: the font
RegisterFont ==
    /\ pc = "font"
    /\ Becomes(FontChosen(Self))
    /\ FontRegistered(Self, 1)
    /\ UNCHANGED <<other, app, session>>

\* Step 1, from line 76 on: the visual PDF
Render ==
    /\ pc = "render"
    /\ Becomes(RenderDone(Self, Rendered(Self)))
    /\ RenderPrints(Rendered(Self))
    /\ UNCHANGED <<other, app, session>>

\* Step 2: the XML
Serialize ==
    /\ pc = "serialize"
    /\ \E today \in Today, uid \in Uuids :
          /\ Becomes(SerializeDone(Self, Serialized(Self, today, uid)))
          /\ NamespacesRegistered(Serialized(Self, today, uid))
    /\ UNCHANGED <<other, app, session>>

\* Step 3: the PDF/A-3 container
Assemble ==
    /\ pc = "assemble"
    /\ \E today \in Today : Becomes(Assembled(Self, today))
    /\ UNCHANGED <<env, stdout, registry, other, app, session>>

Next == RegisterFont \/ Render \/ Serialize \/ Assemble

Spec == Init /\ [][Next]_vars

(***************************************************************************)
(* Two invocations in one process                                          *)
(***************************************************************************)
\* A form that is filled in, and the same form without invoice date and
\* invoice number.
FilledForm ==
    [is_small_business |-> Absent,
     invoice_date      |-> Str(<<"2", "0", "2", "4", "-", "0", "3", "-", "0", "5">>)] @@ FilledFields

ConcurrentForms ==
    {FilledForm, [FilledForm EXCEPT !.invoice_date = Absent, !.invoice_number = Absent]}

ConcurrentItems == {<<ItemPool[1]>>, <<ItemPool[3]>>}

\* generate_invoice_pdf is called twice, by two threads of the process.
InitConcurrent ==
    \E f \in ConcurrentForms, its \in ConcurrentItems :
        \E g \in ConcurrentForms, jts \in ConcurrentItems :
            /\ Is(Called(f, its))
            /\ other = Called(g, jts)
            /\ env = AllThere
            /\ stdout = <<>>
            /\ registry = NoRegistry
            /\ app = NoApp
            /\ session = NoRequest

OtherRegisterFont ==
    /\ other.pc = "font"
    /\ other' = FontChosen(other)
    /\ FontRegistered(other, 2)
    /\ UNCHANGED <<form, items, pc, main_font, totals, pdf, xml, doc, err, app, session>>

OtherRender ==
    /\ other.pc = "render"
    /\ other' = RenderDone(other, Rendered(other))
    /\ RenderPrints(Rendered(other))
    /\ UNCHANGED <<form, items, pc, main_font, totals, pdf, xml, doc, err, app, session>>

OtherSerialize ==
    /\ other.pc = "serialize"
    /\ \E today \in Today, uid \in Uuids :
          /\ other' = SerializeDone(other, Serialized(other, today, uid))
          /\ NamespacesRegistered(Serialized(other, today, uid))
    /\ UNCHANGED <<form, items, pc, main_font, totals, pdf, xml, doc, err, app, session>>

OtherAssemble ==
    /\ other.pc = "assemble"
    /\ \E today \in Today : other' = Assembled(other, today)
    /\ UNCHANGED <<form, items, pc, main_font, totals, pdf, xml, doc, err, env, stdout, registry, app, session>>

NextConcurrent ==
    \/ RegisterFont \/ Render \/ Serialize \/ Assemble
    \/ OtherRegisterFont \/ OtherRender \/ OtherSerialize \/ OtherAssemble

ConcurrentSpec == InitConcurrent /\ [][NextConcurrent]_vars

(***************************************************************************)
(* Forms with optional fields left out, and files that are not there       *)
(***************************************************************************)
\* Largest number of optional text fields of a form that are absent or
\* empty in the model.
MaxBlank == 2

OptionalKeys == {"invoice_date", "invoice_number", "notes", "sender_iban", "sender_tax_id",
                 "sender_vat_id", "leitweg_id"}

\* An optional field is absent, the empty string, or filled in.
OptionalValues(v) == {Absent, Str(<<>>), v}

AllOptionalForms ==
    [is_small_business : {Absent, Str(<<"t", "r", "u", "e">>)},
     invoice_date      : InvoiceDateValues,
     invoice_number    : OptionalValues(FilledFields.invoice_number),
     notes             : OptionalValues(FilledFields.notes),
     sender_iban       : OptionalValues(FilledFields.sender_iban),
     sender_tax_id     : OptionalValues(FilledFields.sender_tax_id),
     sender_vat_id     : OptionalValues(FilledFields.sender_vat_id),
     leitweg_id        : OptionalValues(FilledFields.leitweg_id)]

BlankKeys(f) == {k \in OptionalKeys : f[k] \in {Absent, Str(<<>>)}}

OptionalForms == {f \in AllOptionalForms : Cardinality(BlankKeys(f)) <= MaxBlank}

\* Two items whose fields are decimals.
OptionalItems == <<ItemPool[1], ItemPool[3]>>

InitOptional == \E f \in OptionalForms, e \in Environments : InitWith(f, OptionalItems, e)

OptionalSpec == InitOptional /\ [][Next]_vars

(***************************************************************************)
(* The assembler on buffers of more than one page                          *)
(***************************************************************************)
\* Largest number of pages of a rendered buffer in the model.
MaxPages == 3

\* The parts of a table that runs over several pages.
StoryParts ==
    { <<Row("header", <<>>, <<>>, <<>>)>>,
      <<Row("item", <<"1">>, <<"0", ",", "5", "0">>, <<"0", ",", "6", "0">>)>>,
      <<Row("gesamt", <<"G", "e", "s", "a", "m", "t", ":">>, <<>>, <<"0", ",", "6", "0">>)>> }

\* The buffers doc.build leaves for the form f when the table takes up to
\* MaxPages pages: the header and the footer are drawn on every page.
RenderedBuffers(f) ==
    UNION {{[made  |-> TRUE,
             pages |-> [i \in 1..n |->
                           [story |-> ps[i]] @@ _draw_header_and_footer(f, "Helvetica", "none").page]]
            : ps \in [1..n -> StoryParts]} : n \in 1..MaxPages}

\* The forms the assembler reads the invoice number of.
AssemblerForms ==
    {[f EXCEPT !.invoice_number = n] : f \in Forms, n \in {Absent, Str(<<"R", "1">>)}}

\* The XML of an invoice of one item.
XmlResults(f) == {_generate_zugferd_xml(f, <<ItemPool[1]>>, today, uid) : today \in Today, uid \in Uuids}

XmlBuffers(f) == {r.xml : r \in {s \in XmlResults(f) : s.ok}}

\* The invocation has reached the call of the assembler.
InitAssembler ==
    \E f \in AssemblerForms, e \in {n \in Environments : n.font /\ n.logo = "none"} :
        \E buffer \in RenderedBuffers(f), x \in XmlBuffers(f) :
            /\ Is([Called(f, <<ItemPool[1]>>) EXCEPT !.pc = "assemble", !.main_font = "Helvetica",
                                          !.pdf = buffer, !.xml = x])
            /\ env = e
            /\ stdout = <<>>
            /\ registry = NoRegistry
            /\ other = Idle
            /\ app = NoApp
            /\ session = NoRequest

AssemblerSpec == InitAssembler /\ [][Assemble]_vars

(***************************************************************************)
(* supabase_client.get_current_user and refresh_token_middleware           *)
(***************************************************************************)
\* request.cookies.get(name) of a cookie the request does not carry
NoToken == "None"

\* The access tokens and the refresh tokens a request can carry: Supabase
\* knows "live" as an access token of user "A" and "good" as a refresh
\* token of that user, and rejects the others.
AccessTokens == {NoToken, "live", "expired"}

RefreshTokens == {NoToken, "good", "revoked"}

\* supabase.auth.get_user(jwt=access_token): the user of a live token,
\* AuthApiError for any other, and the error of the transport, which is no
\* AuthApiError, when the auth server cannot be reached.
get_user(jwt, reachable) ==
    IF ~reachable THEN [ok |-> FALSE, err |-> "AuthRetryableError"]
    ELSE IF jwt = "live" THEN [ok |-> TRUE, err |-> "none", user |-> "A"]
    ELSE [ok |-> FALSE, err |-> "AuthApiError"]

\* supabase.auth.refresh_session(refresh_token=refresh_token): a new
\* session for a good refresh token.
refresh_session(refresh_token, reachable) ==
    IF ~reachable THEN [ok |-> FALSE, err |-> "AuthRetryableError"]
    ELSE IF refresh_token = "good"
    THEN [ok |-> TRUE, err |-> "none",
          session |-> [user |-> "A", access_token |-> "live2", refresh_token |-> "good2"]]
    ELSE [ok |-> FALSE, err |-> "AuthApiError"]

NoSession == [user |-> "None"]

\* class User; None is the user with no id.
User(id, token, refresh_token, new_session) ==
    [id |-> id, token |-> token, refresh_token |-> refresh_token, new_session |-> new_session]

NoUser == User("None", NoToken, NoToken, NoSession)

Returns(user) == [raised |-> "none", user |-> user]

Raises(exception) == [raised |-> exception, user |-> NoUser]

\* The inner try of the handler of AuthApiError: what refresh_session
\* raises becomes SessionExpiredError when it is an AuthApiError or a
\* TypeError; any other exception leaves the handler as it is, since the
\* "except Exception" of the outer try does not cover its handlers.
RefreshedUser(r) ==
    IF r.ok THEN Returns(User(r.session.user, r.session.access_token, r.session.refresh_token,
                              r.session))
    ELSE IF r.err \in {"AuthApiError", "TypeError"} THEN Raises("SessionExpiredError")
    ELSE Raises(r.err)

\* The outer try once get_user has answered with g.
UserOf(g, access_token, refresh_token, reachable) ==
    IF g.ok THEN Returns(User(g.user, access_token, refresh_token, NoSession))
    ELSE IF g.err = "AuthApiError"
    THEN (IF refresh_token = NoToken THEN Returns(NoUser)
          ELSE RefreshedUser(refresh_session(refresh_token, reachable)))
    ELSE Returns(NoUser)

\* supabase_client.get_current_user, with net telling whether the auth
\* server can be reached by get_user and by refresh_session.
get_current_user(cookies, net) ==
    IF cookies.access_token = NoToken THEN Returns(NoUser)
    ELSE UserOf(get_user(cookies.access_token, net.get_user), cookies.access_token,
                cookies.refresh_token, net.refresh_session)

\* response.set_cookie and response.delete_cookie, as the headers they add
SetCookie(key, value) == [op |-> "set", key |-> key, value |-> value]

DeleteCookie(key) == [op |-> "delete", key |-> key, value |-> ""]

set_auth_cookies(access_token, refresh_token) ==
    <<SetCookie("access_token", access_token), SetCookie("refresh_token", refresh_token)>>

\* The routes of the model: a page for everyone, a page whose dependency
\* get_current_user redirects to /login without a user, and /logout.
Routes == {"/", "/dashboard", "/logout"}

\* A request in the middleware before get_current_user is called.
Request(cookies, net, route) ==
    [pc |-> "auth", cookies |-> cookies, net |-> net, route |-> route, user |-> NoUser,
     clear_cookies |-> FALSE, status |-> 0, handler_cookies |-> <<>>, cookies_set |-> <<>>,
     raised |-> "none"]

\* Lines 59-67 of the middleware.
Authenticated(req, r) ==
    IF r.raised = "none" THEN [req EXCEPT !.pc = "handler", !.user = r.user]
    ELSE IF r.raised = "SessionExpiredError"
    THEN [req EXCEPT !.pc = "handler", !.user = NoUser, !.clear_cookies = TRUE]
    ELSE [req EXCEPT !.pc = "raised", !.raised = r.raised]

\* call_next: the route handler and its dependency on the user.
Handled(req) ==
    IF req.route = "/logout"
    THEN [req EXCEPT !.pc = "respond", !.status = 307,
                     !.handler_cookies = <<DeleteCookie("access_token"),
                                           DeleteCookie("refresh_token")>>]
    ELSE IF req.route = "/dashboard" /\ req.user = NoUser
    THEN [req EXCEPT !.pc = "respond", !.status = 303]
    ELSE [req EXCEPT !.pc = "respond", !.status = 200]

\* Lines 71-78 of the middleware.
Responded(req) ==
    [req EXCEPT !.pc = "done",
                !.cookies_set =
                    IF req.clear_cookies
                    THEN <<DeleteCookie("access_token"), DeleteCookie("refresh_token")>>
                    ELSE IF req.user # NoUser /\ req.user.new_session # NoSession
                    THEN set_auth_cookies(req.user.new_session.access_token,
                                          req.user.new_session.refresh_token)
                    ELSE <<>>]

Authenticate ==
    /\ session.pc = "auth"
    /\ session' = Authenticated(session, get_current_user(session.cookies, session.net))
    /\ UNCHANGED <<form, items, pc, main_font, totals, pdf, xml, doc, err, env, stdout,
                   registry, other, app>>

CallNext ==
    /\ session.pc = "handler"
    /\ session' = Handled(session)
    /\ UNCHANGED <<form, items, pc, main_font, totals, pdf, xml, doc, err, env, stdout,
                   registry, other, app>>

Respond ==
    /\ session.pc = "respond"
    /\ session' = Responded(session)
    /\ UNCHANGED <<form, items, pc, main_font, totals, pdf, xml, doc, err, env, stdout,
                   registry, other, app>>

\* No invocation of generate_invoice_pdf.
NoInvocation == [Called(<<>>, <<>>) EXCEPT !.pc = "idle"]

InitAuth ==
    \E access_token \in AccessTokens, refresh_token \in RefreshTokens, route \in Routes :
        \E net \in [get_user : BOOLEAN, refresh_session : BOOLEAN] :
            /\ session = Request([access_token |-> access_token, refresh_token |-> refresh_token],
                                 net, route)
            /\ Is(NoInvocation)
            /\ env = AllThere
            /\ stdout = <<>>
            /\ registry = NoRegistry
            /\ other = Idle
            /\ app = NoApp

NextAuth == Authenticate \/ CallNext \/ Respond

AuthSpec == InitAuth /\ [][NextAuth]_vars

(***************************************************************************)
(* crud.py: the rows of clients, invoices and line items                   *)
(***************************************************************************)
\* The tables when the application starts on a new database, with the ids
\* the next client and the next invoice get.
EmptyDb == [clients |-> {}, invoices |-> {}, line_items |-> {}, next_client |-> 1,
            next_invoice |-> 1]

\* db.query(models.Client).filter(id == client_id, owner_id == owner_id):
\* the rows first() takes its result from, none giving None.
get_client(db, client_id, owner_id) ==
    {c \in db.clients : c.id = client_id /\ c.owner_id = owner_id}

\* models.Client(**client.dict(), owner_id=owner_id), added and committed
create_client(db, name, leitweg_id, owner_id) ==
    [db EXCEPT !.clients = @ \cup {[id |-> db.next_client, name |-> name,
                                    leitweg_id |-> leitweg_id, owner_id |-> owner_id]},
               !.next_client = @ + 1]

\* The client of that id and owner is deleted if it is there.
delete_client(db, client_id, owner_id) ==
    [db EXCEPT !.clients = @ \ get_client(db, client_id, owner_id)]

\* setattr for every field of client_data on the client of that owner
update_client(db, client_id, name, leitweg_id, owner_id) ==
    [db EXCEPT !.clients = {IF c \in get_client(db, client_id, owner_id)
                            THEN [c EXCEPT !.name = name, !.leitweg_id = leitweg_id]
                            ELSE c : c \in @}]

\* The line item rows of an invoice, one for each item in its order.
LineItemRows(line_items_data, invoice_id) ==
    {[invoice_id |-> invoice_id, pos |-> k, item |-> line_items_data[k]] :
        k \in 1..Len(line_items_data)}

\* The invoice is committed under the next id, then its line items.
create_invoice(db, invoice, line_items_data, owner_id, client_id) ==
    [db EXCEPT !.invoices = @ \cup {[id |-> db.next_invoice, owner_id |-> owner_id,
                                     client_id |-> client_id] @@ invoice},
               !.line_items = @ \cup LineItemRows(line_items_data, db.next_invoice),
               !.next_invoice = @ + 1]

\* get_invoice_by_id without the owner in the filter
get_invoice_of_any_owner(db, invoice_id, owner_id) ==
    {i \in db.invoices : i.id = invoice_id}

\* The invoice of that id if it is one of that owner, as a set of rows.
get_invoice_by_id(db, invoice_id, owner_id) ==
    {i \in db.invoices : i.id = invoice_id /\ i.owner_id = owner_id}

\* Nothing is done to an invoice that is not one of that owner; else its
\* fields and its client are set, its line items deleted and the new ones
\* added.
update_invoice(db, invoice_id, invoice, line_items_data, owner_id, client_id) ==
    IF get_invoice_by_id(db, invoice_id, owner_id) = {} THEN db
    ELSE [db EXCEPT !.invoices = {IF i.id = invoice_id
                                  THEN [id |-> i.id, owner_id |-> i.owner_id,
                                        client_id |-> client_id] @@ invoice
                                  ELSE i : i \in @},
                    !.line_items = {l \in @ : l.invoice_id # invoice_id}
                                       \cup LineItemRows(line_items_data, invoice_id)]

\* db.query(models.Invoice).filter(id == invoice_id).delete(): the rows of
\* the invoice table with that id, whoever owns them; the query does not
\* touch the line items.
delete_invoice(db, invoice_id) ==
    [db EXCEPT !.invoices = {i \in @ : i.id # invoice_id}]

(***************************************************************************)
(* main.py: the routes of invoices and clients                             *)
(***************************************************************************)
\* The steps of generate_invoice_pdf as one call, with the font and the
\* ICC profile of the module there: what a step raises is raised by the
\* call, else the assembled PDF is returned.
Combined(r, x, f, today) ==
    IF ~r.ok THEN [ok |-> FALSE, err |-> r.err]
    ELSE IF ~x.ok THEN [ok |-> FALSE, err |-> x.err]
    ELSE [ok |-> TRUE, err |-> "none",
          doc |-> _make_pdfa_compliant(r.pdf, x.xml, f, TRUE, today)]

generate_invoice_pdf(f, its, logo, today, uid) ==
    Combined(_build_reportlab_pdf(f, its, logo, "DejaVuSans", 1),
             _generate_zugferd_xml(f, its, today, uid), f, today)

\* int(client_id_str) if client_id_str and client_id_str.isdigit() else
\* None, with 0 for None
ClientId(client_select) ==
    IF Truthy(DictGetNone(client_select)) /\ AllDigits(client_select.chars)
    THEN DigitsVal(client_select.chars) ELSE 0

\* Lines 387-389: the fields of an item as Decimal(item.get(key) or '0')
\* gives them, which the generator reads back through str().
ParsedItem(item) ==
    Item(Str(DecStr(FieldDecimal(item.quantity).d)), Str(DecStr(FieldDecimal(item.unit_price).d)),
         Str(DecStr(FieldDecimal(item.vat_rate).d)))

\* Lines 370-390: InvalidOperation when a field of an item is no decimal.
ParsedItems(its) ==
    IF \A k \in 1..Len(its) : /\ FieldDecimal(its[k].quantity).ok
                              /\ FieldDecimal(its[k].unit_price).ok
                              /\ FieldDecimal(its[k].vat_rate).ok
    THEN [ok |-> TRUE, items |-> [k \in 1..Len(its) |-> ParsedItem(its[k])]]
    ELSE [ok |-> FALSE, items |-> <<>>]

\* c.isalnum() or c in ('-', '_') on the characters of the model
IsSafeChar(c) == IsDigit(c) \/ c \in {"a", "b", "c", "R", "-", "_"}

\* Lines 423-424: spaces become underscores, then the characters that are
\* neither letters nor digits nor '-' nor '_' are dropped.
SafeFilename(user_filename) == SelectSeq(ReplaceChar(user_filename, " ", "_"), IsSafeChar)

\* Lines 419-430: the name the user gave once it is cleaned, or the name
\* made of the user id and of uuid4, n standing for a value uuid4 has not
\* given before.
PdfFilename(user_filename, user, n) ==
    IF Truthy(DictGetNone(user_filename)) /\ SafeFilename(user_filename.chars) # <<>>
    THEN SafeFilename(user_filename.chars) \o <<".pdf">>
    ELSE <<"rechnung_", user, "_">> \o NatDigits(n) \o <<".pdf">>

\* Whether the name is one of uuid4.
IsGeneratedName(user_filename) ==
    ~(Truthy(DictGetNone(user_filename)) /\ SafeFilename(user_filename.chars) # <<>>)

\* open(path, "wb") and write: the file of that path has the content.
WriteFile(files, path, content) ==
    {f \in files : f.path # path} \cup {[path |-> path, content |-> content]}

\* Lines 437-447 from item k on: total_netto += quantity * unit_price and
\* total_vat += line_netto * (vat_rate / Decimal("100.0")), no rounding;
\* total_brutto is their sum.
RECURSIVE TotalBrutto(_, _, _, _)
TotalBrutto(its, k, total_netto, total_vat) ==
    IF k > Len(its) THEN DecAdd(total_netto, total_vat)
    ELSE TotalBrutto(its, k + 1,
             DecAdd(total_netto, DecMul(FieldDecimal(its[k].quantity).d,
                                        FieldDecimal(its[k].unit_price).d)),
             DecAdd(total_vat, DecMul(DecMul(FieldDecimal(its[k].quantity).d,
                                             FieldDecimal(its[k].unit_price).d),
                                      DecDivHundred(FieldDecimal(its[k].vat_rate).d))))

\* Lines 450-459: schemas.InvoiceCreate
InvoiceData(f, its, pdf_filename, today) ==
    [invoice_number |-> DictGet(f.invoice_number, Str(<<"N/A">>)),
     invoice_date   |-> IF Truthy(DictGetNone(f.invoice_date)) THEN ParseDate(f.invoice_date.chars)
                        ELSE ParseDate(today),
     total_amount   |-> TotalBrutto(its, 1, DecZeroPointZero, DecZeroPointZero),
     pdf_file_path  |-> <<"invoices/">> \o pdf_filename]

\* The users of the application, by their Supabase ids.
Users == {"A", "B"}

\* The application when it starts: an empty database, no file in
\* static/invoices, no name taken from uuid4 and no request answered.
\* client_fields tells whether the mapped class Client takes and holds the
\* fields leitweg_id and vat_id that schemas.ClientCreate and main.py use
\* ("as_used"), or only the columns models.py declares ("as_declared"), in
\* which case the constructor of the declarative base raises TypeError for
\* the keyword leitweg_id and a client read from the table has no such
\* attribute.
Started(client_fields) ==
    [db |-> EmptyDb, files |-> {}, uuids |-> 0, requests |-> 0, user |-> "none",
     response |-> [route |-> "none", status |-> 0, err |-> "none", invoice |-> 0],
     client_fields |-> client_fields]

\* The application once a request of the user is answered: the database
\* and the files as the handler leaves them, and its response.
Answered(a, user, db, files, uuids, response) ==
    [a EXCEPT !.db = db, !.files = files, !.uuids = uuids, !.requests = @ + 1,
              !.user = user, !.response = response]

\* The response to an exception no handler catches, to an HTTPException
\* and to a request that is served; invoice is the id of the invoice row
\* crud returned, 0 for none.
ServerError(route, exception) == [route |-> route, status |-> 500, err |-> exception, invoice |-> 0]

Status(route, status) == [route |-> route, status |-> status, err |-> "none", invoice |-> 0]

PdfResponse(invoice) ==
    [route |-> "/rechnung-erstellen", status |-> 200, err |-> "none", invoice |-> invoice]

\* Lines 432-434 and 436-477: the file is written under the name, then
\* the invoice of invoice_id is updated if the form has one and a new
\* invoice is created if not, and the PDF is returned whatever
\* update_invoice returned.
Stored(a, req, db, client_id, its, pdf_buffer, pdf_filename) ==
    IF Truthy(DictGetNone(req.invoice_id))
    THEN Answered(a, req.user,
                  update_invoice(db, DigitsVal(req.invoice_id.chars),
                                    InvoiceData(req.form, its, pdf_filename, req.today),
                                    its, req.user, client_id),
                  WriteFile(a.files, <<"invoices/">> \o pdf_filename, pdf_buffer),
                  IF IsGeneratedName(req.pdf_filename) THEN a.uuids + 1 ELSE a.uuids,
                  PdfResponse(IF get_invoice_by_id(db, DigitsVal(req.invoice_id.chars),
                                                   req.user) = {}
                              THEN 0 ELSE DigitsVal(req.invoice_id.chars)))
    ELSE Answered(a, req.user,
                  create_invoice(db, InvoiceData(req.form, its, pdf_filename, req.today),
                                    its, req.user, client_id),
                  WriteFile(a.files, <<"invoices/">> \o pdf_filename, pdf_buffer),
                  IF IsGeneratedName(req.pdf_filename) THEN a.uuids + 1 ELSE a.uuids,
                  PdfResponse(db.next_invoice))

\* A form of the requests, by its small-business flag and invoice date.
AppForm(is_small_business, invoice_date) ==
    FilledFields @@ [is_small_business |-> is_small_business, invoice_date |-> invoice_date]

\* What the requests ask an invoice for: one item of 1 x 0.50 at 19 % of a
\* sender that charges VAT, one of 2 x 600.00 at 19.0 % of a small
\* business, the first with an empty invoice date, and an item whose
\* quantity is no number.
Contents ==
    { [form  |-> AppForm(Absent, Str(<<"2", "0", "2", "4", "-", "0", "3", "-", "0", "5">>)),
       items |-> <<ItemPool[1]>>],
      [form  |-> AppForm(Str(<<"t", "r", "u", "e">>),
                         Str(<<"2", "0", "2", "4", "-", "0", "3", "-", "0", "5">>)),
       items |-> <<ItemPool[2]>>],
      [form  |-> AppForm(Absent, Str(<<>>)), items |-> <<ItemPool[1]>>],
      [form  |-> AppForm(Absent, Str(<<"2", "0", "2", "4", "-", "0", "3", "-", "0", "5">>)),
       items |-> <<ItemPool[6]>>] }

\* The Leitweg-ID of a client form.
LeitwegValues == {None, Str(<<"04011">>)}

\* The day and the uuid4 of the calls the requests make.
RequestDay == <<"2", "0", "2", "6", "-", "1", "1", "-", "0", "4">>

RequestUuid == <<"0A1B2C">>

\* The calls of generate_invoice_pdf the requests can make: the form as it
\* was sent or with the Leitweg-ID of a client, and the items as parsed.
DocumentCalls ==
    { <<[c.form EXCEPT !.leitweg_id = l], ParsedItems(c.items).items>> :
        c \in {d \in Contents : ParsedItems(d.items).ok},
        l \in {c.form.leitweg_id : c \in Contents} \cup (LeitwegValues \ {None}) }

\* Line 416 for each of these calls: what generate_invoice_pdf returns or
\* raises, without a logo.
Documents ==
    { [call |-> k, result |-> generate_invoice_pdf(k[1], k[2], "none", RequestDay, RequestUuid)] :
        k \in DocumentCalls }

GeneratedDocument(f, its) == (CHOOSE d \in Documents : d.call = <<f, its>>).result

\* Line 416: what generate_invoice_pdf raises ends the request with what
\* was committed before.
WithDocument(a, req, db, client_id, its, g) ==
    IF ~g.ok
    THEN Answered(a, req.user, db, a.files, a.uuids, ServerError("/rechnung-erstellen", g.err))
    ELSE Stored(a, req, db, client_id, its, g.doc,
                PdfFilename(req.pdf_filename, req.user, a.uuids + 1))

\* Lines 410-413: the Leitweg-ID of the client of the user, if one is
\* selected and has one, goes into the form.
WithLeitweg(f, client) ==
    IF client # {} /\ Truthy(DictGetNone((CHOOSE c \in client : TRUE).leitweg_id))
    THEN [f EXCEPT !.leitweg_id = (CHOOSE c \in client : TRUE).leitweg_id]
    ELSE f

\* Lines 393-416 without a company profile of the user: no logo, and the
\* form as it was sent but for the Leitweg-ID.
WithClient(a, req, db, client_id, its, client) ==
    IF client # {} /\ a.client_fields = "as_declared"
    THEN Answered(a, req.user, db, a.files, a.uuids,
                  ServerError("/rechnung-erstellen", "AttributeError"))
    ELSE WithDocument(a, req, db, client_id, its,
                      GeneratedDocument(WithLeitweg(req.form, client), its))

\* Lines 370-390: the items are parsed once the client is there.
WithItems(a, req, db, client_id, parsed) ==
    IF ~parsed.ok
    THEN Answered(a, req.user, db, a.files, a.uuids,
                  ServerError("/rechnung-erstellen", "InvalidOperation"))
    ELSE WithClient(a, req, db, client_id, parsed.items,
                    IF client_id # 0 THEN get_client(db, client_id, req.user) ELSE {})

\* Lines 353-367: a client is created and committed when none is selected
\* and the form names a receiver.
WithClientId(a, req, client_id) ==
    IF client_id = 0 /\ Truthy(DictGetNone(req.receiver_name))
    THEN (IF a.client_fields = "as_declared"
          THEN Answered(a, req.user, a.db, a.files, a.uuids,
                        ServerError("/rechnung-erstellen", "TypeError"))
          ELSE WithItems(a, req, create_client(a.db, req.receiver_name, None, req.user),
                         a.db.next_client, ParsedItems(req.items)))
    ELSE WithItems(a, req, a.db, client_id, ParsedItems(req.items))

\* POST /rechnung-erstellen for a user the dependency let through
create_rechnung(a, req) == WithClientId(a, req, ClientId(req.client_select))

\* POST /invoice/delete/{invoice_id}
delete_invoice_route(a, user, invoice_id) ==
    IF get_invoice_by_id(a.db, invoice_id, user) = {}
    THEN Answered(a, user, a.db, a.files, a.uuids, Status("/invoice/delete", 404))
    ELSE Answered(a, user, delete_invoice(a.db, invoice_id),
                  {f \in a.files : \A i \in get_invoice_by_id(a.db, invoice_id, user) :
                                      f.path # i.pdf_file_path},
                  a.uuids, Status("/invoice/delete", 303))

\* POST /kunden/delete/{client_id}: refused while an invoice of the user
\* has the client.
delete_client_route(a, user, client_id) ==
    IF \E i \in a.db.invoices : i.client_id = client_id /\ i.owner_id = user
    THEN Answered(a, user, a.db, a.files, a.uuids, Status("/kunden/delete", 400))
    ELSE Answered(a, user, delete_client(a.db, client_id, user), a.files, a.uuids,
                  Status("/kunden/delete", 303))

\* POST /kunden/edit/{client_id}
edit_client_route(a, user, client_id, name, leitweg_id) ==
    IF get_client(a.db, client_id, user) = {}
    THEN Answered(a, user, a.db, a.files, a.uuids, Status("/kunden/edit", 404))
    ELSE Answered(a, user, update_client(a.db, client_id, name, leitweg_id, user), a.files,
                  a.uuids,
                  Status("/kunden/edit", 303))

\* POST /kunden
create_new_client(a, user, name, leitweg_id) ==
    IF a.client_fields = "as_declared"
    THEN Answered(a, user, a.db, a.files, a.uuids, ServerError("/kunden", "TypeError"))
    ELSE Answered(a, user, create_client(a.db, name, leitweg_id, user), a.files, a.uuids,
                  Status("/kunden", 303))

\* Largest number of requests the application answers in the model.
MaxRequests == 2

\* The client part of a request: no client, the client 1 selected, or the
\* name of a new one.
ClientParts ==
    { [client_select |-> Str(<<>>), receiver_name |-> Str(<<>>)],
      [client_select |-> Str(<<"1">>), receiver_name |-> Str(<<>>)],
      [client_select |-> Str(<<>>), receiver_name |-> Str(<<"X">>)] }

\* A request to POST /rechnung-erstellen: the user the dependency found,
\* the fields invoice_id and pdf_filename of the form, left out or empty
\* or filled in, the client part, the fields the generator reads and the
\* items, and the day of the call.
Requests ==
    { c @@ k @@ r : c \in Contents, k \in ClientParts,
                    r \in [user         : Users,
                           invoice_id   : {Absent, Str(<<"1">>)},
                           pdf_filename : {Str(<<>>), Str(<<"a", " ", "!">>)},
                           today        : {RequestDay}] }

\* The ids a path can name.
PathIds == 1..MaxRequests

Unused == <<form, items, pc, main_font, totals, pdf, xml, doc, err, env, stdout, registry,
            other, session>>

CreateRechnung ==
    /\ app.requests < MaxRequests
    /\ \E req \in Requests : app' = create_rechnung(app, req)
    /\ UNCHANGED Unused

DeleteInvoice ==
    /\ app.requests < MaxRequests
    /\ \E user \in Users, invoice_id \in PathIds : app' = delete_invoice_route(app, user, invoice_id)
    /\ UNCHANGED Unused

DeleteClient ==
    /\ app.requests < MaxRequests
    /\ \E user \in Users, client_id \in PathIds : app' = delete_client_route(app, user, client_id)
    /\ UNCHANGED Unused

EditClient ==
    /\ app.requests < MaxRequests
    /\ \E user \in Users, client_id \in PathIds, leitweg_id \in LeitwegValues :
           app' = edit_client_route(app, user, client_id, Str(<<"Y">>), leitweg_id)
    /\ UNCHANGED Unused

CreateNewClient ==
    /\ app.requests < MaxRequests
    /\ \E user \in Users, leitweg_id \in LeitwegValues :
           app' = create_new_client(app, user, Str(<<"X">>), leitweg_id)
    /\ UNCHANGED Unused

InitApp ==
    \E client_fields \in {"as_used", "as_declared"} :
        /\ app = Started(client_fields)
        /\ Is(NoInvocation)
        /\ env = AllThere
        /\ stdout = <<>>
        /\ registry = NoRegistry
        /\ other = Idle
        /\ session = NoRequest

NextApp == CreateRechnung \/ DeleteInvoice \/ DeleteClient \/ EditClient \/ CreateNewClient

AppSpec == InitApp /\ [][NextApp]_vars

(***************************************************************************)
(* Properties of the totals and of the two documents                       *)
(***************************************************************************)
\* The flag as the renderer and the serializer both derive it from the form.
SmallBusiness == IsSmallBusiness(form)

Quantity(i) == FieldDecimal(items[i].quantity).d

Price(i) == FieldDecimal(items[i].unit_price).d

\* The rate the totals use for item i.
Rate(i) == IF SmallBusiness THEN Dec(0, 0, 0) ELSE FieldDecimal(items[i].vat_rate).d

Signed(d) == IF d.s = 1 THEN 0 - d.c ELSE d.c

Abs(n) == IF n < 0 THEN 0 - n ELSE n

Lowest(S) == CHOOSE e \in S : \A f \in S : e <= f

\* The sum of f over the finite set S of its domain.
RECURSIVE SumOver(_, _)
SumOver(S, f) ==
    IF S = {} THEN 0
    ELSE f[CHOOSE x \in S : TRUE] + SumOver(S \ {CHOOSE x \in S : TRUE}, f)

\* The value of d counted in units of 10^e, for e <= d.exp.
Units(d, e) == Signed(d) * Pow10(d.exp - e)

\* d is worth v units of 10^e.
IsValue(d, e, v) == d.exp >= e /\ Units(d, e) = v

\* The exponent of the unrounded net of line i, and the finest exponent of
\* all lines and of the Decimal("0.0") the totals start from.
LineExp(i) == Quantity(i).exp + Price(i).exp

NetExp == Lowest({LineExp(i) : i \in 1..Len(items)} \cup {0 - 1})

\* quantity * unit_price of line i, unrounded, in units of 10^NetExp.
LineUnits == [i \in 1..Len(items) |-> Signed(Quantity(i)) * Signed(Price(i)) * Pow10(LineExp(i) - NetExp)]

\* n / den cents rounded to whole cents, halves away from zero.
HalfUpCents(n, den) ==
    IF n < 0 THEN 0 - ((2 * (0 - n) + den) \div (2 * den))
    ELSE (2 * n + den) \div (2 * den)

\* net * rate / 100 of line i in cents is LineVatNum(i) / LineVatDen(i).
LineVatNum(i) == Signed(Quantity(i)) * Signed(Price(i)) * Signed(Rate(i))

LineVatDen(i) == Pow10(0 - (LineExp(i) + Rate(i).exp))

\* The VAT of line i in cents: net * rate / 100, rounded half-up to the cent.
LineVatCents == [i \in 1..Len(items) |-> HalfUpCents(LineVatNum(i), LineVatDen(i))]

\* The unrounded VAT of line i lies halfway between two cents.
OnHalfCent(i) == (2 * Abs(LineVatNum(i))) % (2 * LineVatDen(i)) = LineVatDen(i)

\* The lines whose rate is, as a number, the rate of bucket k.
LinesOf(k) == {i \in 1..Len(items) : DecEq(Rate(i), totals.vat_summary[k].rate)}

Buckets == 1..Len(totals.vat_summary)

BasisUnits == [k \in Buckets |-> Units(totals.vat_summary[k].basis, NetExp)]

VatCents == [k \in Buckets |-> Units(totals.vat_summary[k].vat, TWO_PLACES)]

\* An item with a rate above zero and a net amount other than zero.
Taxed(i) == FieldDecimal(items[i].vat_rate).d.c > 0 /\ Quantity(i).c * Price(i).c > 0

\* C1: when the sender is a small business the totals use the rate 0 for
\* every item whatever its own rate: every bucket is keyed by 0, the total
\* VAT is exactly 0 and the gross total equals the net total.
SmallBusinessNoVat ==
    (totals.made /\ SmallBusiness) =>
        /\ \A k \in Buckets : totals.vat_summary[k].rate.c = 0 /\ totals.vat_summary[k].vat.c = 0
        /\ totals.total_vat.d.c = 0
        /\ DecEq(totals.total_brutto, totals.total_netto)

SmallBusinessNoVatWitness ==
    /\ totals.made /\ SmallBusiness
    /\ \E i \in 1..Len(items) : Taxed(i)
    /\ totals.total_netto.c > 0

\* C2: the basis amounts of the buckets add up to exactly the total net,
\* and the VAT amounts of the buckets to exactly the total VAT.
BucketsAddUp ==
    totals.made =>
        /\ \A k \in Buckets : totals.vat_summary[k].basis.exp >= NetExp
        /\ IsValue(totals.total_netto, NetExp, SumOver(Buckets, BasisUnits))
        /\ \A k \in Buckets : totals.vat_summary[k].vat.exp >= TWO_PLACES
        /\ IsValue(totals.total_vat.d, TWO_PLACES, SumOver(Buckets, VatCents))

BucketsAddUpWitness ==
    /\ totals.made
    /\ Len(totals.vat_summary) >= 2
    /\ \E k \in Buckets : Cardinality(LinesOf(k)) >= 2 /\ totals.vat_summary[k].vat.c > 0

\* Every item has, as a number, the same rate.
UniformRate == \A i, j \in 1..Len(items) : DecEq(Rate(i), Rate(j))

\* The exponent at which net * rate / 100 of a uniform-rate list is exact.
ExactExp == NetExp + Rate(1).exp - 2

\* |gross - (net + net * rate / 100)| for a uniform-rate list, in units of
\* 10^ExactExp; a cent is Pow10(-2 - ExactExp) of these units.
GrossError ==
    Abs(Units(totals.total_brutto, ExactExp) - Units(totals.total_netto, ExactExp)
        - SumOver(1..Len(items), LineUnits) * Signed(Rate(1)))

CentUnits == Pow10(TWO_PLACES - ExactExp)

UniformCase == totals.made /\ ~SmallBusiness /\ items # <<>> /\ UniformRate

\* C3 as the specification words it: for a list whose items all carry one
\* rate, with the small-business flag off, the gross total is within one
\* cent of net * (1 + rate / 100).
GrossWithinOneCent == UniformCase => GrossError <= CentUnits

\* C3: for a list whose items all carry one rate, with the small-business
\* flag off, the gross total differs from net * (1 + rate / 100) by at most
\* half a cent for each item, so by at most one cent for up to two items.
GrossWithinHalfCentPerItem ==
    UniformCase =>
        /\ 2 * GrossError <= Len(items) * CentUnits
        /\ Len(items) <= 2 => GrossError <= CentUnits

GrossWithinHalfCentPerItemWitness ==
    /\ UniformCase
    /\ Len(items) >= 2
    /\ GrossError = CentUnits

\* The amount cell of the 'Gesamt:' row, the last row of the table.
GesamtText == pdf.data[Len(pdf.data)].amount

\* The number a German amount denotes: the grouping points dropped, the
\* decimal comma read as a point.
GermanValue(cs) == ParseDecimal(ReplaceChar(RemoveChar(cs, "."), ",", "."))

\* C4: the 'Gesamt' of the visual PDF and the GrandTotalAmount of the XML
\* are the same amount whenever the pipeline produced both.
GesamtIsGrandTotal ==
    (pdf.made /\ xml.made) =>
        /\ pdf.data[Len(pdf.data)].kind = "gesamt"
        /\ GermanValue(GesamtText).ok
        /\ ParseDecimal(xml.summation.GrandTotalAmount).ok
        /\ GermanValue(GesamtText).d.exp = ParseDecimal(xml.summation.GrandTotalAmount).d.exp
        /\ Signed(GermanValue(GesamtText).d) = Signed(ParseDecimal(xml.summation.GrandTotalAmount).d)

\* Both documents exist, the amount is above a thousand and lies between
\* two cents, so that the two texts differ and both had to round.
GesamtIsGrandTotalWitness ==
    /\ pdf.made /\ xml.made
    /\ CountChar(GesamtText, ".") = 1
    /\ totals.total_brutto.exp < TWO_PLACES
    /\ xml.summation.GrandTotalAmount # GesamtText

\* A text with exactly two decimals.
HasTwoDecimals(cs) ==
    /\ Len(cs) >= 4
    /\ CountChar(cs, ".") = 1
    /\ cs[Len(cs) - 2] = "."
    /\ \A i \in 1..Len(cs) : i # Len(cs) - 2 => (IsDigit(cs[i]) \/ (i = 1 /\ cs[i] = "-"))

\* The text cs is the amount d written with two decimals: it has two
\* decimals and is no further than half a cent from d, measured in units of
\* 10^e for an exponent e that is at most -2 and at most that of d.
WrittenAt(cs, d, e) ==
    /\ HasTwoDecimals(cs)
    /\ ParseDecimal(cs).ok
    /\ 2 * Abs(Units(ParseDecimal(cs).d, e) - Units(d, e)) <= Pow10(TWO_PLACES - e)

Written(cs, d) == WrittenAt(cs, d, IF d.exp < TWO_PLACES THEN d.exp ELSE TWO_PLACES)

\* C5: in the header summation of the XML, LineTotalAmount and
\* TaxBasisTotalAmount are the total net, TaxTotalAmount the total VAT,
\* GrandTotalAmount and DuePayableAmount the total gross that the totals
\* computation returns for the same inputs, each written with two decimals.
SummationIsTotals ==
    xml.made =>
        /\ totals.made
        /\ Written(xml.summation.LineTotalAmount, totals.total_netto)
        /\ Written(xml.summation.TaxBasisTotalAmount, totals.total_netto)
        /\ Written(xml.summation.TaxTotalAmount, totals.total_vat.d)
        /\ Written(xml.summation.GrandTotalAmount, totals.total_brutto)
        /\ Written(xml.summation.DuePayableAmount, totals.total_brutto)

SummationIsTotalsWitness ==
    /\ xml.made
    /\ totals.total_vat.d.c > 0
    /\ totals.total_netto.exp < TWO_PLACES
    /\ xml.summation.TaxBasisTotalAmount # xml.summation.TaxTotalAmount
    /\ xml.summation.TaxBasisTotalAmount # xml.summation.GrandTotalAmount

\* The finer of the exponents of the net total and of a cent.
GrossExp == IF NetExp < TWO_PLACES THEN NetExp ELSE TWO_PLACES

\* C6: the line net is quantity * unit price, unrounded; the total net is
\* the sum of the line nets; the VAT of a bucket is the sum over its lines
\* of line net * rate / 100 rounded half-up to two places; the total VAT is
\* the sum of the bucket VATs; the gross total is net plus VAT.
TotalsFormula ==
    totals.made =>
        /\ IsValue(totals.total_netto, NetExp, SumOver(1..Len(items), LineUnits))
        /\ \A k \in Buckets :
               IsValue(totals.vat_summary[k].vat, TWO_PLACES, SumOver(LinesOf(k), LineVatCents))
        /\ IsValue(totals.total_vat.d, TWO_PLACES, SumOver(1..Len(items), LineVatCents))
        /\ totals.total_brutto.exp >= GrossExp
        /\ Units(totals.total_brutto, GrossExp)
               = Units(totals.total_netto, GrossExp) + Units(totals.total_vat.d, GrossExp)

\* Two lines of one bucket whose VAT each falls on half a cent: rounding
\* the lines and rounding their sum give different amounts.
TotalsFormulaWitness ==
    /\ totals.made /\ ~SmallBusiness
    /\ \E k \in Buckets : \E i, j \in LinesOf(k) :
           i # j /\ OnHalfCent(i) /\ OnHalfCent(j)

\* No more than two digits after the point.
AtMostTwoPlaces(d) == d.exp >= TWO_PLACES \/ d.c % Pow10(TWO_PLACES - d.exp) = 0

\* C7 as the specification words it: the basis and the VAT amount of a
\* bucket are both rounded to two places.
BasisAndVatTwoPlaces ==
    totals.made =>
        \A k \in Buckets : /\ AtMostTwoPlaces(totals.vat_summary[k].basis)
                           /\ AtMostTwoPlaces(totals.vat_summary[k].vat)

\* C7: the VAT amount of a bucket never carries more than two digits after
\* the point; its basis is the unrounded sum of the nets of its lines and
\* carries as many digits as they do.
VatTwoPlacesBasisUnrounded ==
    totals.made =>
        \A k \in Buckets : /\ AtMostTwoPlaces(totals.vat_summary[k].vat)
                           /\ IsValue(totals.vat_summary[k].basis, NetExp, SumOver(LinesOf(k), LineUnits))

VatTwoPlacesBasisUnroundedWitness ==
    /\ totals.made /\ ~SmallBusiness
    /\ \E k \in Buckets : /\ ~AtMostTwoPlaces(totals.vat_summary[k].basis)
                          /\ totals.vat_summary[k].vat.c > 0

\* C8 as the specification words it: with the small-business flag on the
\* VAT breakdown is empty, for a non-empty item list too.
SmallBusinessNoBuckets == (totals.made /\ SmallBusiness) => totals.vat_summary = <<>>

\* C8: with the small-business flag on the VAT breakdown of a non-empty
\* item list is one bucket, keyed by the rate 0, with VAT 0 and the total
\* net as its basis; it is empty for an empty item list only.
SmallBusinessOneZeroBucket ==
    (totals.made /\ SmallBusiness) =>
        /\ items = <<>> => totals.vat_summary = <<>>
        /\ items # <<>> =>
               /\ Len(totals.vat_summary) = 1
               /\ totals.vat_summary[1].rate.c = 0
               /\ totals.vat_summary[1].vat.c = 0
               /\ DecEq(totals.vat_summary[1].basis, totals.total_netto)
               /\ IsValue(totals.vat_summary[1].basis, NetExp, SumOver(1..Len(items), LineUnits))

SmallBusinessOneZeroBucketWitness ==
    /\ totals.made /\ SmallBusiness
    /\ \E i, j \in 1..Len(items) :
           /\ Taxed(i) /\ Taxed(j)
           /\ ~DecEq(FieldDecimal(items[i].vat_rate).d, FieldDecimal(items[j].vat_rate).d)

\* C9: there is one bucket for each rate that differs as a number, the rate
\* of an item being the one the totals use for it (its own, or 0 when the
\* sender is a small business): every item has the bucket of its rate, no
\* bucket is without an item, and no two buckets have the same rate however
\* it is written.
OneBucketPerRate ==
    totals.made =>
        /\ \A i \in 1..Len(items) : \E k \in Buckets : i \in LinesOf(k)
        /\ \A k \in Buckets : LinesOf(k) # {}
        /\ \A k, l \in Buckets :
               k # l => /\ LinesOf(k) \cap LinesOf(l) = {}
                        /\ ~DecEq(totals.vat_summary[k].rate, totals.vat_summary[l].rate)

\* Three items, two of them with one rate written in two ways, the third
\* with another rate: two buckets.
OneBucketPerRateWitness ==
    /\ totals.made /\ ~SmallBusiness
    /\ Len(totals.vat_summary) = 2
    /\ \E i, j \in 1..Len(items) :
           /\ items[i].vat_rate # items[j].vat_rate
           /\ Taxed(i) /\ Taxed(j)
           /\ DecEq(Rate(i), Rate(j))

\* A field that is missing, None or the empty string.
Blank(v) == v \in {Absent, None, Str(<<>>)}

\* A field that Decimal can read.
DecimalText(v) == v.tag = "str" /\ ParseDecimal(v.chars).ok

Fields(item) == {item.quantity, item.unit_price, item.vat_rate}

\* The item with "0" written in its blank fields.
Filled(v) == IF Blank(v) THEN Str(<<"0">>) ELSE v

FilledItems ==
    [i \in 1..Len(items) |-> Item(Filled(items[i].quantity), Filled(items[i].unit_price),
                                  Filled(items[i].vat_rate))]

\* C10: a quantity, unit price or rate that is missing, None or empty is
\* read as 0 by the totals, the renderer and the serializer, and raises
\* nothing: no stage fails on an item, and the totals, the table and the
\* XML are those of the list with "0" written in the blank fields.
BlankFieldsAreZero ==
    /\ (\A i \in 1..Len(items) : \A v \in Fields(items[i]) : Blank(v) \/ DecimalText(v))
           => /\ err # "InvalidOperation"
              /\ pc \notin {"font", "render"} => totals.made /\ pdf.made
    /\ totals.made =>
           /\ totals = [made |-> TRUE] @@ _calculate_totals(FilledItems, SmallBusiness)
           /\ \A i \in 1..Len(items) :
                  /\ Blank(items[i].quantity) => Quantity(i).c = 0
                  /\ Blank(items[i].unit_price) => Price(i).c = 0
                  /\ Blank(items[i].vat_rate) => Rate(i).c = 0
    /\ pdf.made =>
           /\ pdf = _build_reportlab_pdf(form, FilledItems, env.logo, main_font, FontObject(Self)).pdf
           /\ \A i \in 1..Len(items) :
                  /\ Blank(items[i].quantity) => pdf.data[i + 1].label = <<"0">>
                  /\ Blank(items[i].unit_price) => pdf.data[i + 1].preis = <<"0", ",", "0", "0">>
                  /\ (Blank(items[i].quantity) \/ Blank(items[i].unit_price))
                         => pdf.data[i + 1].amount = <<"0", ",", "0", "0">>
    /\ xml.made =>
           /\ xml = [_generate_zugferd_xml(form, FilledItems, CHOOSE today \in Today : TRUE,
                                           CHOOSE uid \in Uuids : TRUE).xml
                        EXCEPT !.IssueDateTime = xml.IssueDateTime]
           /\ \A i \in 1..Len(items) :
                  /\ Blank(items[i].quantity)
                         => xml.lines[i].BilledQuantity = <<"0", ".", "0", "0", "0", "0">>
                  /\ Blank(items[i].unit_price)
                         => xml.lines[i].ChargeAmount = <<"0", ".", "0", "0", "0", "0">>
                  /\ Blank(items[i].vat_rate)
                         => xml.lines[i].tax.RateApplicablePercent = <<"0", ".", "0", "0">>
                  /\ (Blank(items[i].quantity) \/ Blank(items[i].unit_price))
                         => xml.lines[i].LineTotalAmount = <<"0", ".", "0", "0">>

\* The pipeline has run to its end on a list with an item whose three
\* fields are blank in the three ways and an item with no blank field.
BlankFieldsAreZeroWitness ==
    /\ pc = "done" /\ doc.made
    /\ \E i, j \in 1..Len(items) :
           /\ items[i].quantity = Absent /\ items[i].unit_price = None /\ items[i].vat_rate = Str(<<>>)
           /\ \A v \in Fields(items[j]) : ~Blank(v)
           /\ Taxed(j)

(***************************************************************************)
(* Properties of the pipeline                                              *)
(***************************************************************************)
\* Some field of some item is text that Decimal cannot read.
Malformed(v) == ~Blank(v) /\ ~DecimalText(v)

MalformedItem == \E i \in 1..Len(items) : \E v \in Fields(items[i]) : Malformed(v)

\* The renderer has returned or raised.
RendererLeft == pc \notin {"font", "render"}

\* C11: when a quantity, unit price or VAT rate of an item is text that is
\* no decimal, the invocation fails in the renderer with the parse error
\* (decimal.InvalidOperation): no XML is made, no document is returned and
\* neither the serializer nor the assembler runs.
MalformedFieldFails ==
    MalformedItem /\ RendererLeft
        => pc = "failed" /\ err = "InvalidOperation" /\ ~pdf.made /\ ~xml.made /\ ~doc.made

\* C12: the document that is returned holds exactly one embedded file: it
\* is named factur-x.xml, its bytes are the XML the serializer returned,
\* its file specification has the relationship Data, and this one file
\* specification is both in the name tree of embedded files and in the
\* array of associated files.
OneEmbeddedXml ==
    doc.made =>
        /\ Len(doc.EmbeddedFiles) = 1
        /\ doc.EmbeddedFiles[1].name = "factur-x.xml"
        /\ doc.EmbeddedFiles[1].ref.F = "factur-x.xml"
        /\ doc.EmbeddedFiles[1].ref.EF = xml
        /\ doc.EmbeddedFiles[1].ref.AFRelationship = "Data"
        /\ doc.AF = <<doc.EmbeddedFiles[1].ref>>

\* A document is returned whose XML has two line items.
OneEmbeddedXmlWitness ==
    /\ pc = "done" /\ doc.made /\ xml.made
    /\ Len(doc.EmbeddedFiles[1].ref.EF.lines) = 2

\* C13: the assembler leaves the pages as they are: the document has as
\* many pages as the rendered PDF, in the same order and each with the
\* content it had; what the assembler does is add objects next to them.
PagesUnchanged ==
    doc.made =>
        /\ Len(doc.pages) = Len(pdf.pages)
        /\ \A i \in 1..Len(pdf.pages) : doc.pages[i] = pdf.pages[i]

\* A document of three pages that all differ has been assembled.
PagesUnchangedWitness ==
    /\ pc = "done" /\ doc.made
    /\ Len(pdf.pages) = 3
    /\ \A i, j \in 1..3 : i # j => pdf.pages[i] # pdf.pages[j]

\* The exception the invocation would leave with if the font file, the
\* ICC profile and the logo were all there: "none" if it would return.
ErrAllThere ==
    IF ~_build_reportlab_pdf(form, items, "ok", "DejaVuSans", 1).ok
    THEN _build_reportlab_pdf(form, items, "ok", "DejaVuSans", 1).err
    ELSE (CHOOSE r \in {_generate_zugferd_xml(form, items, today, uid) :
                            today \in Today, uid \in Uuids} : TRUE).err

FontWarning == "Warning: DejaVuSans.ttf not found"

\* C14: no missing file makes the invocation fail: with no font file the
\* built-in font is used and a warning is printed, a logo that is missing
\* or cannot be loaded is left out of the header, with no ICC profile the
\* document has no output intent, and an invocation fails only if it
\* would fail with all files there; the document that is returned embeds
\* the XML.
MissingFilesDegrade ==
    /\ pc = "failed" => err = ErrAllThere
    /\ pc \notin {"font", "failed"} => err = "none"
    /\ pc # "font" =>
           /\ main_font = (IF env.font THEN "DejaVuSans" ELSE "Helvetica")
           /\ (\E i \in 1..Len(stdout) : stdout[i] = FontWarning) <=> ~env.font
    /\ RendererLeft /\ pc # "failed" =>
           /\ pdf.made
           /\ pdf.font_name = main_font
           /\ \A i \in 1..Len(pdf.pages) : pdf.pages[i].header.logo <=> env.logo = "ok"
    /\ doc.made =>
           /\ doc.OutputIntents = <<>> <=> ~env.icc
           /\ doc.EmbeddedFiles[1].ref.EF = xml /\ xml.made

\* A document is returned though the font file and the ICC profile are
\* missing and the logo cannot be loaded.
MissingFilesDegradeWitness ==
    /\ pc = "done" /\ doc.made
    /\ ~env.font /\ ~env.icc /\ env.logo = "unloadable"

\* The items are such that no stage fails on them: there is one at least
\* and every field is blank or a decimal.
ItemsWellFormed ==
    /\ items # <<>>
    /\ \A i \in 1..Len(items) : \A v \in Fields(items[i]) : Blank(v) \/ DecimalText(v)

\* The element or line made from an optional field that is absent or empty
\* is left out.
OmittedWhenBlank(v, made) == v \in {Absent, Str(<<>>)} => made = <<>>

\* C15: whichever optional text fields of the form (invoice date, invoice
\* number, notes, IBAN, tax ids, Leitweg-ID) are absent or the empty
\* string, the invocation does not fail, and what is made from a blank
\* field is empty or left out.
OptionalFieldsNeverFail ==
    ItemsWellFormed =>
        /\ pc # "failed" /\ err = "none"
        /\ pdf.made =>
               /\ OmittedWhenBlank(form.sender_iban, SelectSeq(pdf.pages[1].footer.details,
                                                               LAMBDA l : l[1] = "IBAN:"))
               /\ OmittedWhenBlank(form.invoice_number, pdf.pages[1].header.invoice_details[1])
        /\ xml.made =>
               /\ OmittedWhenBlank(form.sender_iban, xml.IBANID)
               /\ OmittedWhenBlank(form.leitweg_id, xml.BuyerReference)
               /\ OmittedWhenBlank(form.sender_tax_id,
                                   SelectSeq(xml.SpecifiedTaxRegistration, LAMBDA t : t.schemeID = "FC"))
               /\ OmittedWhenBlank(form.sender_vat_id,
                                   SelectSeq(xml.SpecifiedTaxRegistration, LAMBDA t : t.schemeID = "VA"))

\* C16: two invocations with the same form and the same items return the
\* same document with the same XML in it: nothing of what is returned
\* comes from the clock or from a random identifier.
SameInputsSameDocument ==
    pc = "done" /\ other.pc = "done" /\ other.form = form /\ other.items = items
        => other.xml = xml /\ other.doc = doc

\* C17: two invocations that run at once share no state: the font object
\* an invocation draws its pages with is the one it registered itself, not
\* one the other invocation put in the registry of the process, and the
\* PDF it renders is the one it renders alone.
NoSharedState ==
    /\ pdf.made =>
           /\ pdf.font_object = 1
           /\ pdf = _build_reportlab_pdf(form, items, env.logo, main_font, 1).pdf
    /\ other.pdf.made =>
           /\ other.pdf.font_object = 2
           /\ other.pdf = _build_reportlab_pdf(other.form, other.items, env.logo,
                                               other.main_font, 2).pdf

\* The steps of one invocation, the renderer in its two parts.
StageSteps ==
    { <<"font", "render">>, <<"render", "serialize">>, <<"serialize", "assemble">>,
      <<"assemble", "done">>, <<"render", "failed">>, <<"serialize", "failed">> }

\* What the stage the invocation is in raises, "none" if it returns.
Raised ==
    IF pc = "render" THEN Rendered(Self).err
    ELSE IF pc = "serialize"
    THEN (CHOOSE r \in {Serialized(Self, today, uid) : today \in Today, uid \in Uuids} : TRUE).err
    ELSE "none"

\* What a step of the invocation keeps to.
StageOrder ==
    /\ pc' # pc => <<pc, pc'>> \in StageSteps
    /\ pc \in {"done", "failed"} => UNCHANGED vars
    /\ pdf.made => pdf' = pdf
    /\ xml.made => xml' = xml
    /\ doc.made => doc' = doc
    /\ pdf'.made /\ ~pdf.made => pc = "render" /\ pc' = "serialize"
    /\ xml'.made /\ ~xml.made => pc = "serialize" /\ pc' = "assemble" /\ pdf.made
    /\ doc'.made /\ ~doc.made => pc = "assemble" /\ pc' = "done" /\ pdf.made /\ xml.made
    /\ pc' = "failed" /\ pc # "failed" => err = "none" /\ err' = Raised /\ err' # "none"
    /\ pc' # "failed" => err' = "none"

\* C18: an invocation renders, then serializes, then assembles, each
\* stage once at most: what a stage raises leaves the invocation as it was
\* raised, after which no stage runs, nothing is retried, and the
\* document is made only once the PDF and the XML are both there.
StagesInOrder == [][StageOrder]_vars

\* The serializer has failed after the renderer returned: there is a PDF,
\* no XML and no document.
StagesInOrderWitness ==
    /\ pc = "failed" /\ err = "ValueError"
    /\ pdf.made /\ ~xml.made /\ ~doc.made

\* The tax element has the category of the rate: "S" for a rate above
\* zero and "O" otherwise, with an exemption reason for "O" and for "O" only.
CategoryOfRate(tax, rate) ==
    /\ tax.CategoryCode = (IF DecGtZero(rate) THEN "S" ELSE "O")
    /\ tax.ExemptionReasonCode # "" <=> tax.CategoryCode = "O"

\* C19: in the XML the tax element of every line item and of every header
\* tax summary has the category code S exactly when its effective rate is
\* greater than 0 and O otherwise, and has an exemption reason code
\* exactly when the category code is O.
TaxCategoryByRate ==
    xml.made =>
        /\ \A i \in 1..Len(items) : CategoryOfRate(xml.lines[i].tax, Rate(i))
        /\ \A k \in Buckets : CategoryOfRate(xml.taxes[k].tax, totals.vat_summary[k].rate)

\* The decimal digits of k as the XML writes a line id.
LineIdOf(k) == IF k < 10 THEN <<DigitChars[k + 1]>> ELSE <<DigitChars[(k \div 10) + 1], DigitChars[(k % 10) + 1]>>

\* The text is a decimal worth d.
TextIs(text, d) == ParseDecimal(text).ok /\ DecEq(ParseDecimal(text).d, d)

\* C20: the XML has one line-item element for every item, in the order of
\* the items, the k-th with the line id k and the quantity and the price
\* of the k-th item, and one header tax summary for every bucket of
\* vat_summary, the k-th with the rate of the k-th bucket.
OneLinePerItem ==
    xml.made =>
        /\ Len(xml.lines) = Len(items)
        /\ \A k \in 1..Len(items) :
               /\ xml.lines[k].LineID = LineIdOf(k)
               /\ TextIs(xml.lines[k].BilledQuantity, Quantity(k))
               /\ TextIs(xml.lines[k].ChargeAmount, Price(k))
        /\ Len(xml.taxes) = Len(totals.vat_summary)
        /\ \A k \in Buckets :
               TextIs(xml.taxes[k].tax.RateApplicablePercent,
                      Quantize(totals.vat_summary[k].rate, TWO_PLACES))

\* The XML of three items that differ in quantity and price and fall in
\* three buckets has been made.
OneLinePerItemWitness ==
    /\ xml.made /\ Len(items) = 3 /\ Len(totals.vat_summary) = 3
    /\ \A i, j \in 1..3 : i # j => ~DecEq(Quantity(i), Quantity(j)) /\ ~DecEq(Price(i), Price(j))

(***************************************************************************)
(* Properties of the summary block, the XML header and the header totals   *)
(***************************************************************************)
IsVatRow(row) == row.kind = "vat"

\* The buckets whose VAT amount is greater than zero, and those whose rate
\* is other than zero.
PositiveBuckets == {k \in Buckets : DecGtZero(totals.vat_summary[k].vat)}

RateBuckets == {k \in Buckets : totals.vat_summary[k].rate.c # 0}

\* The row the table has for bucket k: "<rate>% MwSt:" and the VAT amount.
IsRowOfBucket(row, k) ==
    /\ row.kind = "vat"
    /\ row.label = DecStr(totals.vat_summary[k].rate) \o <<"%", " ", "M", "w", "S", "t", ":">>
    /\ row.amount = format_currency(totals.vat_summary[k].vat)

\* The summary block: the net row after the item rows, the gross row last
\* and the VAT rows, and only they, in between.
SummaryBlock ==
    /\ pdf.data[Len(items) + 2].kind = "netto"
    /\ pdf.data[Len(pdf.data)].kind = "gesamt"
    /\ \A j \in 1..Len(pdf.data) :
           IsVatRow(pdf.data[j]) <=> (Len(items) + 2 < j /\ j < Len(pdf.data))

\* C21 as stated: between the net row and the gross row the table has one
\* VAT row for every bucket with a rate other than zero when the sender is
\* no small business, and no VAT row when it is one.
OneVatRowPerRateBucket ==
    pdf.made =>
        /\ SummaryBlock
        /\ Len(SelectSeq(pdf.data, IsVatRow)) =
               (IF SmallBusiness THEN 0 ELSE Cardinality(RateBuckets))

\* C21: between the net row and the gross row the table has one VAT row
\* for every bucket whose VAT amount is greater than zero when the sender
\* is no small business, in the order of the rates, and no VAT row when it
\* is one.
OneVatRowPerTaxedBucket ==
    pdf.made =>
        /\ SummaryBlock
        /\ Len(SelectSeq(pdf.data, IsVatRow)) =
               (IF SmallBusiness THEN 0 ELSE Cardinality(PositiveBuckets))
        /\ ~SmallBusiness =>
               /\ \A k \in PositiveBuckets :
                      Cardinality({j \in 1..Len(pdf.data) : IsRowOfBucket(pdf.data[j], k)}) = 1
               /\ \A j \in 1..Len(pdf.data), k, l \in PositiveBuckets :
                      /\ IsRowOfBucket(pdf.data[j], k)
                      /\ j < Len(pdf.data) /\ IsRowOfBucket(pdf.data[j + 1], l)
                      => DecLess(totals.vat_summary[k].rate, totals.vat_summary[l].rate)

\* The table of a sender that is no small business has been rendered, with
\* a row for each of two buckets and none for a third bucket with no VAT.
OneVatRowPerTaxedBucketWitness ==
    /\ pdf.made /\ ~SmallBusiness
    /\ Cardinality(PositiveBuckets) >= 2
    /\ Cardinality(Buckets \ PositiveBuckets) >= 1

\* The date the text names as the number YYYYMMDD.
DateNumber(cs) == ParseDate(cs).y * 10000 + ParseDate(cs).m * 100 + ParseDate(cs).d

\* C22: the ID of the XML document is the invoice number of the form when
\* the form has one, and a placeholder that is not empty, "INV-" and six
\* random characters, when it has none; the issue date is the invoice
\* date of the form written as the eight digits YYYYMMDD.
DocumentIdAndIssueDate ==
    xml.made =>
        /\ form.invoice_number.tag = "str" => xml.ID = form.invoice_number.chars
        /\ form.invoice_number = Absent =>
               /\ xml.ID # <<>>
               /\ xml.ID \in {<<"INV-">> \o uid : uid \in Uuids}
        /\ form.invoice_date.tag = "str" =>
               /\ Len(xml.IssueDateTime) = 8 /\ AllDigits(xml.IssueDateTime)
               /\ DigitsVal(xml.IssueDateTime) = DateNumber(form.invoice_date.chars)

\* The XML of a form with an invoice date and no invoice number has been
\* made.
DocumentIdAndIssueDateWitness ==
    /\ xml.made
    /\ form.invoice_number = Absent
    /\ form.invoice_date.tag = "str"

\* The amount an element of the XML is written with, in cents.
CentsOf(text) == Units(ParseDecimal(text).d, TWO_PLACES)

LineTotalCents == [k \in 1..Len(xml.lines) |-> CentsOf(xml.lines[k].LineTotalAmount)]

\* C24: in every XML the LineTotalAmount of the header is the sum of the
\* LineTotalAmount values of the line items, each as it is written with
\* two decimals.
HeaderLineTotalIsSumOfLines ==
    xml.made =>
        CentsOf(xml.summation.LineTotalAmount) = SumOver(1..Len(xml.lines), LineTotalCents)

\* C25: the row the table style spans for the net total, the row
\* -len(vat_summary)-2 from the end of the table, is the row that holds
\* the net total: the table has as many VAT rows as vat_summary has
\* buckets.
NettoSpanOnNetRow ==
    pdf.made =>
        /\ pdf.netto_span \in 1..Len(pdf.data)
        /\ pdf.data[pdf.netto_span].kind = "netto"
        /\ Len(SelectSeq(pdf.data, IsVatRow)) = Len(totals.vat_summary)

(***************************************************************************)
(* Properties of the auth middleware                                       *)
(***************************************************************************)
\* The access token of the request is one Supabase rejects.
InvalidAccess == session.cookies.access_token \notin {NoToken, "live"}

\* The refresh of the request's refresh token gives a new session.
RefreshSucceeds ==
    refresh_session(session.cookies.refresh_token, session.net.refresh_session).ok

\* (a) no access token, or an invalid one with no refresh token: handled
\* as unauthenticated, no cookie changed.
OutcomeUnauthenticated ==
    /\ \/ session.cookies.access_token = NoToken
       \/ InvalidAccess /\ session.cookies.refresh_token = NoToken
    /\ session.pc = "done" /\ session.user = NoUser /\ session.cookies_set = <<>>

\* (b) valid access token: handled as that user, no cookie changed.
OutcomeUser ==
    /\ session.cookies.access_token = "live"
    /\ session.pc = "done" /\ session.user.id = "A" /\ session.cookies_set = <<>>

\* (c) invalid access token and a refresh that succeeds: handled as the
\* refreshed user, both cookies set to the values of the new session.
OutcomeRefreshed ==
    /\ InvalidAccess /\ session.cookies.refresh_token # NoToken /\ RefreshSucceeds
    /\ session.pc = "done" /\ session.user.id = "A"
    /\ session.cookies_set = <<SetCookie("access_token", "live2"),
                               SetCookie("refresh_token", "good2")>>

\* (d) invalid access token and a refresh that fails: handled as
\* unauthenticated, both cookies deleted.
OutcomeExpired ==
    /\ InvalidAccess /\ session.cookies.refresh_token # NoToken /\ ~RefreshSucceeds
    /\ session.pc = "done" /\ session.user = NoUser
    /\ session.cookies_set = <<DeleteCookie("access_token"), DeleteCookie("refresh_token")>>

\* C23: for every request the middleware ends in exactly one of the
\* outcomes (a) to (d).
MiddlewareOutcomes ==
    session.pc \in {"done", "raised"} =>
        Cardinality({o \in {"a", "b", "c", "d"} :
                        \/ o = "a" /\ OutcomeUnauthenticated
                        \/ o = "b" /\ OutcomeUser
                        \/ o = "c" /\ OutcomeRefreshed
                        \/ o = "d" /\ OutcomeExpired}) = 1

(***************************************************************************)
(* Properties of the invoice and client routes                             *)
(***************************************************************************)
\* The XML embedded in a stored PDF.
EmbeddedXml(content) == content.EmbeddedFiles[1].ref.EF

\* The 'Gesamt' amount of the table of a stored PDF.
GesamtOf(content) == content.pages[1].story[Len(content.pages[1].story)].amount

\* The invoice row the last request stored, and the file of its path.
StoredInvoice == CHOOSE i \in app.db.invoices : i.id = app.response.invoice

StoredFile == CHOOSE f \in app.files : f.path = StoredInvoice.pdf_file_path

\* The amounts are the same to the cent: not more than half a cent apart.
SameToTheCent(a, b) == Abs(Units(a, 0 - 6) - Units(b, 0 - 6)) <= 5000

\* C26: the total_amount stored with an invoice is the gross total the
\* document generated for it reports, the 'Gesamt' of the PDF and the
\* GrandTotalAmount of the XML, also when the small-business flag is set.
StoredTotalIsDocumentGross ==
    (app.response.route = "/rechnung-erstellen" /\ app.response.invoice # 0) =>
        /\ SameToTheCent(StoredInvoice.total_amount,
                         ParseDecimal(EmbeddedXml(StoredFile.content).summation.GrandTotalAmount).d)
        /\ SameToTheCent(StoredInvoice.total_amount,
                         GermanValue(GesamtOf(StoredFile.content)).d)

\* The line items stored for the invoice of that id.
LineItemsOfInvoice(invoice_id) == {l \in app.db.line_items : l.invoice_id = invoice_id}

\* The document is one generated for the invoice: it has the invoice's
\* number and one line per stored line item, of its quantity and price.
IsDocumentOf(content, i) ==
    /\ EmbeddedXml(content).ID = i.invoice_number.chars
    /\ Len(EmbeddedXml(content).lines) = Cardinality(LineItemsOfInvoice(i.id))
    /\ \A l \in LineItemsOfInvoice(i.id) :
          /\ l.pos \in 1..Len(EmbeddedXml(content).lines)
          /\ DecEq(ParseDecimal(EmbeddedXml(content).lines[l.pos].BilledQuantity).d,
                   FieldDecimal(l.item.quantity).d)
          /\ DecEq(ParseDecimal(EmbeddedXml(content).lines[l.pos].ChargeAmount).d,
                   FieldDecimal(l.item.unit_price).d)

\* C27: every stored invoice's pdf_file_path names an existing file whose
\* content is the PDF generated for that invoice, whatever create, edit and
\* delete requests the users have made: none overwrites or removes the file
\* of another invoice that still exists.
EveryInvoiceHasItsPdf ==
    \A i \in app.db.invoices :
        \E f \in app.files : f.path = i.pdf_file_path /\ IsDocumentOf(f.content, i)

\* C28: every invoice with a client_id refers to an existing client of the
\* invoice's owner: no create or edit links an invoice to a client that does
\* not exist or is another user's, and no client is deleted while an invoice
\* is linked to it.
InvoiceClientIsOwnersClient ==
    \A i \in app.db.invoices :
        i.client_id # 0 =>
            \E c \in app.db.clients : c.id = i.client_id /\ c.owner_id = i.owner_id

\* The records of a user in the database of a state of the application: the
\* invoices and the clients with the user as owner_id, and the line items of
\* those invoices.
RecordsOf(a, user) ==
    [invoices   |-> {i \in a.db.invoices : i.owner_id = user},
     clients    |-> {c \in a.db.clients : c.owner_id = user},
     line_items |-> {l \in a.db.line_items :
                        \E i \in a.db.invoices : i.id = l.invoice_id /\ i.owner_id = user}]

\* C29: owner isolation. Whatever request a user makes (create or edit an
\* invoice, also with the invoice_id or the client id of another user, delete
\* an invoice, create, edit or delete a client), the invoices, line items and
\* clients of every other user are after it what they were before it.
OwnerIsolation ==
    [][app'.requests = app.requests + 1 =>
          \A user \in Users \ {app'.user} : RecordsOf(app', user) = RecordsOf(app, user)]_vars

\* User B has asked to edit invoice 1, which is an invoice of user A with a
\* line item and a client; the request was answered without an invoice.
OwnerIsolationWitness ==
    /\ app.user = "B"
    /\ app.response.route = "/rechnung-erstellen"
    /\ app.response.status = 200
    /\ app.response.invoice = 0
    /\ \E i \in RecordsOf(app, "A").invoices :
          /\ i.id = 1
          /\ \E l \in RecordsOf(app, "A").line_items : l.invoice_id = 1

\* The tables of the database and the files of a state of the application.
Persisted(a) ==
    [clients |-> a.db.clients, invoices |-> a.db.invoices,
     line_items |-> a.db.line_items, files |-> a.files]

\* C30: a create-invoice request that does not end with a stored invoice
\* (an item field that is no number, a failing generation, an invoice_id the
\* user does not own) leaves what is persisted as it was: no client is
\* created, no PDF file written, no invoice or line item added or changed.
FailedCreateChangesNothing ==
    [][(/\ app'.requests = app.requests + 1
        /\ app'.response.route = "/rechnung-erstellen"
        /\ app'.response.invoice = 0) => Persisted(app') = Persisted(app)]_vars

====
